---- MODULE Spec2Model ----
(***************************************************************************)
(* State-machine model of the serverless handlers of equipment-list-api:   *)
(* the support-ticket handlers (ticket-create, ticket-update, ticket-reply,*)
(* ticket-messages) over the tickets and ticket_messages tables, and the    *)
(* equipment-save handlers over the per-customer equipment metafield.       *)
(*                                                                         *)
(* Every handler invocation is a process p \in Procs.  One action is one    *)
(* await point of the handler together with the local code that runs up to  *)
(* the next await (or up to the return).  The data store, the commerce API  *)
(* and the notifier are external: each call draws its outcome from the      *)
(* outcomes the handler's code distinguishes.                               *)
(***************************************************************************)
EXTENDS Integers, Sequences, FiniteSets, TLC

VARIABLES
    tickets,      \* support_tickets table: sequence of rows, in insertion order
    messages,     \* ticket_messages table: sequence of rows, in insertion order
    profiles,     \* customer -> stored equipment_list metafield (machines list)
    req,          \* p -> the invocation running as process p
    now,          \* the clock read by new Date()
    env,          \* process.env: configuration, fixed for a behaviour
    storeFailed,  \* history: some data-store call has not succeeded
    started       \* history: number of invocations started so far

vars == <<tickets, messages, profiles, req, now, env, storeFailed, started>>

(***************************************************************************)
(* Bounds of the model.                                                    *)
(***************************************************************************)
NumProcs    == 2    \* concurrent invocations
MaxRequests == 3    \* invocations per behaviour

Procs == 1..NumProcs

(***************************************************************************)
(* JavaScript values.  A missing property is Absent; null timestamps and    *)
(* null ids are 0 (the clock starts at 1 and ids at 1).                     *)
(***************************************************************************)
Absent   == "undefined"
JNull    == "null"
JTrue    == "#true"
JFalse   == "#false"
NullTime == 0
NoId     == 0

\* JavaScript truthiness of a JSON value (if (v), !v, v || d, v && w)
Truthy(v) == v \notin {Absent, JNull, JFalse, ""}

OrElse(v, d) == IF Truthy(v) THEN v ELSE d

(***************************************************************************)
(* Program constants.                                                      *)
(***************************************************************************)
FirstTicketNumber == 1001

VALID_STATUSES   == {"Open", "Pending", "Resolved", "Closed"}
VALID_PRIORITIES == {"normal", "high", "urgent"}
TicketTypes      == {"return", "parts", "equipment-help", "order-issue", "general"}

(***************************************************************************)
(* An invocation.                                                          *)
(***************************************************************************)
NoUpdate == [updated_at |-> NullTime, status |-> Absent, resolved_at |-> NullTime,
             priority |-> Absent, assigned_to |-> Absent, assigned_name |-> Absent,
             customer_archived |-> Absent, admin_archived |-> Absent]

NoRow == [id |-> NoId]

NoLoc == [n |-> 0, check |-> "none", upd |-> NoUpdate, ticket |-> NoRow, msg |-> NoRow,
          doc |-> <<>>]

Idle == [kind |-> "idle", variant |-> "none", method |-> "none", body |-> <<>>,
         pc |-> "idle", loc |-> NoLoc, code |-> 0, out |-> <<>>, calls |-> {}]

Invoke(kind, variant, method, body) ==
    [Idle EXCEPT !.kind = kind, !.variant = variant, !.method = method,
                 !.body = body, !.pc = "start"]

\* return { statusCode: c, body: out }
Return(r, c, out) == [r EXCEPT !.pc = "done", !.code = c, !.out = out]

Goto(r, pc) == [r EXCEPT !.pc = pc]

Called(r, what) == [r EXCEPT !.calls = @ \cup {what}]

At(p, kind, pc) == req[p].kind = kind /\ req[p].pc = pc

\* { success: false, error: 'Method not allowed' }
MethodNotAllowed == [success |-> JFalse, error |-> "Method not allowed"]

\* mutant of MethodGate: the preflight is answered like any other method
MethodGate_NoPreflight(r, allowed) ==
    IF r.method # allowed THEN Return(r, 405, MethodNotAllowed)
    ELSE r

\* the first lines of every ticket handler: OPTIONS returns 200 with the body
\* '', any method but the allowed one returns 405
MethodGate(r, allowed) ==
    IF r.method = "OPTIONS" THEN Return(r, 200, <<>>)
    ELSE IF r.method # allowed THEN Return(r, 405, MethodNotAllowed)
    ELSE r

(***************************************************************************)
(* The data store.                                                         *)
(***************************************************************************)
RECURSIVE MaxNumber(_)
\* support_tickets?select=ticket_number&order=ticket_number.desc&limit=1
MaxNumber(ts) ==
    IF ts = <<>> THEN 0
    ELSE LET m == MaxNumber(Tail(ts))
         IN IF Head(ts).ticket_number > m THEN Head(ts).ticket_number ELSE m

TicketIds == {tickets[i].id : i \in 1..Len(tickets)}

\* generated ids ('tkt_' + time + random): a value no stored row has
FreshTicketId == Len(tickets) + 1

(***************************************************************************)
(* ticket-create.  variant "rest": src/netlify/functions/ticket-create.js  *)
(* lines 17-189; variant "sdk": lines 214-320.                             *)
(***************************************************************************)
\* mutant of CreateMissingRequired: description is not looked at
CreateMissingRequired_NoDescription(body) ==
    \/ ~Truthy(body.customerId)
    \/ ~Truthy(body.type)
    \/ ~Truthy(body.subject)

\* !customerId || !type || !subject || !description
CreateMissingRequired(body) ==
    \/ ~Truthy(body.customerId)
    \/ ~Truthy(body.type)
    \/ ~Truthy(body.subject)
    \/ ~Truthy(body.description)

StartCreate(p, variant, method, body) ==
    /\ req[p].pc = "idle"
    /\ started < MaxRequests
    /\ LET r0 == MethodGate(Invoke("create", variant, method, body), "POST")
           r1 == IF r0.pc = "done" THEN r0
                 ELSE IF CreateMissingRequired(body) THEN Return(r0, 400, <<>>)
                 ELSE Goto(r0, "number")
       IN  req' = [req EXCEPT ![p] = r1]
    /\ started' = started + 1
    /\ UNCHANGED <<tickets, messages, profiles, now, env, storeFailed>>

\* outcomes of a data-store call, as the handler can tell them apart:
\* rest: "ok", "error" (an HTTP error with a JSON error body), "throw" (fetch rejects)
\* sdk:  "ok", "error" ({ data: null, error })
StoreOutcomes(variant) ==
    IF variant = "rest" THEN {"ok", "error", "throw"} ELSE {"ok", "error"}

\* mutant of NextTicketNumber: the count-based variant seeds at 1000 + count
NextTicketNumber_CountOffByOne(variant, outcome) ==
    IF variant = "rest"
    THEN IF outcome = "ok" /\ Len(tickets) > 0
         THEN MaxNumber(tickets) + 1
         ELSE FirstTicketNumber
    ELSE IF outcome = "ok" /\ Len(tickets) > 0
         THEN FirstTicketNumber + Len(tickets) - 1
         ELSE FirstTicketNumber

\* rest: countData.length > 0 ? countData[0].ticket_number + 1 : 1001
\* sdk:  1001 + (count || 0)
NextTicketNumber(variant, outcome) ==
    IF variant = "rest"
    THEN IF outcome = "ok" /\ Len(tickets) > 0
         THEN MaxNumber(tickets) + 1
         ELSE FirstTicketNumber
    ELSE IF outcome = "ok"
         THEN FirstTicketNumber + Len(tickets)
         ELSE FirstTicketNumber + 0

CreateReadNumber(p, outcome) ==
    /\ At(p, "create", "number")
    /\ outcome \in StoreOutcomes(req[p].variant)
    /\ LET r  == [Called(req[p], "read_number") EXCEPT !.loc.check = outcome]
           r1 == IF outcome = "throw" THEN Return(r, 500, <<>>)
                 ELSE Goto([r EXCEPT !.loc.n = NextTicketNumber(r.variant, outcome)],
                           "insert")
       IN  req' = [req EXCEPT ![p] = r1]
    /\ storeFailed' = (storeFailed \/ outcome # "ok")
    /\ UNCHANGED <<tickets, messages, profiles, now, env, started>>

\* the row built at ticket-create.js 75-96 (rest) and 251-269 (sdk)
TicketData(r, id, t) ==
    [id |-> id,
     ticket_number |-> r.loc.n,
     customer_id |-> r.body.customerId,
     customer_email |-> OrElse(r.body.customerEmail, JNull),
     type |-> r.body.type,
     priority |-> IF r.variant = "rest"
                  THEN (IF r.body.priority = Absent THEN "normal" ELSE r.body.priority)
                  ELSE OrElse(r.body.priority, "normal"),
     status |-> "Open",
     assigned_to |-> JNull,
     assigned_name |-> JNull,
     customer_archived |-> JFalse,
     admin_archived |-> JFalse,
     created_at |-> t,
     updated_at |-> t,
     resolved_at |-> NullTime]

CreateInsert(p, outcome) ==
    /\ At(p, "create", "insert")
    /\ outcome \in StoreOutcomes(req[p].variant)
    /\ LET r   == Called(req[p], "insert_ticket")
           row == TicketData(r, FreshTicketId, now)
       IN  IF outcome = "ok"
           THEN /\ tickets' = Append(tickets, row)
                /\ req' = [req EXCEPT ![p] =
                             IF r.variant = "rest"
                             THEN Goto([r EXCEPT !.out = row], "notify_customer")
                             ELSE Return(r, 200, row)]
           ELSE /\ tickets' = tickets
                /\ req' = [req EXCEPT ![p] = Return(r, 500, <<>>)]
    /\ now' = now + 1
    /\ storeFailed' = (storeFailed \/ outcome # "ok")
    /\ UNCHANGED <<messages, profiles, env, started>>

\* outcomes of await fetch(notifyUrl): a response (its status is not looked at:
\* "ok", "error") or a rejection ("throw")
NotifyOutcomes == {"ok", "error", "throw"}

\* the notification call what has been issued and has had the given outcome;
\* "notify_failed" records that a notification call did not succeed
Notified(r, what, outcome) ==
    IF outcome = "ok" THEN Called(r, what)
    ELSE Called(Called(r, what), "notify_failed")

\* mutant of NotifyResponse: a failed notification fails the request
NotifyResponse_Propagates(outcome) == IF outcome = "ok" THEN 200 ELSE 500

\* catch (emailError) { console.error(...) } and the return that follows,
\* ticket-create.js 159-176, ticket-reply.js 151-171
NotifyResponse(outcome) == 200

\* ticket-create.js 126-139: inside the try, skipped when customerEmail is falsy
CreateNotifyCustomer(p, outcome) ==
    /\ At(p, "create", "notify_customer")
    /\ outcome \in NotifyOutcomes
    /\ LET r == req[p]
       IN  req' = [req EXCEPT ![p] =
                IF ~Truthy(r.body.customerEmail) THEN Goto(r, "notify_admin")
                ELSE IF outcome = "throw"
                     THEN Return(Notified(r, "notify_customer", outcome),
                                 NotifyResponse(outcome), r.out)
                     ELSE Goto(Notified(r, "notify_customer", outcome), "notify_admin")]
    /\ UNCHANGED <<tickets, messages, profiles, now, env, storeFailed, started>>

\* ticket-create.js 141-176: skipped when ADMIN_EMAIL is not set; then return 200
CreateNotifyAdmin(p, outcome) ==
    /\ At(p, "create", "notify_admin")
    /\ outcome \in NotifyOutcomes
    /\ LET r == req[p]
       IN  req' = [req EXCEPT ![p] =
                IF ~env.ADMIN_EMAIL THEN Return(r, 200, r.out)
                ELSE Return(Notified(r, "notify_admin", outcome),
                            NotifyResponse(outcome), r.out)]
    /\ UNCHANGED <<tickets, messages, profiles, now, env, storeFailed, started>>

(***************************************************************************)
(* ticket-update.  variant "rest": src/unnamed/part_003; variant "sdk":     *)
(* src/netlify/functions/ticket-create.js lines 351-479.                    *)
(***************************************************************************)
RowsWithId(id) == SelectSeq(tickets, LAMBDA t : t.id = id)

StartUpdate(p, variant, method, body) ==
    /\ req[p].pc = "idle"
    /\ started < MaxRequests
    /\ LET r0 == MethodGate(Invoke("update", variant, method, body), "POST")
           r1 == IF r0.pc = "done" THEN r0
                 ELSE IF body.ticketId = NoId THEN Return(r0, 400, <<>>)
                 ELSE Goto(r0, "check")
       IN  req' = [req EXCEPT ![p] = r1]
    /\ started' = started + 1
    /\ UNCHANGED <<tickets, messages, profiles, now, env, storeFailed>>

\* mutant of TicketNotFound: only the rest variant looks for the ticket
TicketNotFound_RestOnly(variant, outcome, id) ==
    variant = "rest" /\ outcome = "ok" /\ Len(RowsWithId(id)) = 0

\* rest: !existingTicket || existingTicket.length === 0   (part_003 58)
\*       (an error body is an object without length: it passes the check)
\* sdk:  fetchError || !existingTicket                     (ticket-create.js 383)
TicketNotFound(variant, outcome, id) ==
    IF variant = "rest"
    THEN outcome = "ok" /\ Len(RowsWithId(id)) = 0
    ELSE outcome = "error" \/ Len(RowsWithId(id)) # 1

\* status !== undefined && !VALID_STATUSES.includes(status)
StatusRejected(status) == status # Absent /\ status \notin VALID_STATUSES

\* mutant of PriorityRejected: the priority is not validated
PriorityRejected_Never(priority) == FALSE

\* priority !== undefined && !VALID_PRIORITIES.includes(priority)
PriorityRejected(priority) == priority # Absent /\ priority \notin VALID_PRIORITIES

\* mutant of ResolvedStamp: only Resolved stamps resolved_at
ResolvedStamp_OnlyResolved(status, t) ==
    IF status = "Resolved" THEN t ELSE NullTime

\* if (status === 'Resolved' || status === 'Closed') updateData.resolved_at = now
ResolvedStamp(status, t) ==
    IF status = "Resolved" \/ status = "Closed" THEN t ELSE NullTime

\* updateData, part_003 66-117 (sdk: ticket-create.js 391-435, no archive flags)
UpdateData(variant, body, t) ==
    [updated_at |-> t,
     status |-> body.status,
     resolved_at |-> IF body.status # Absent THEN ResolvedStamp(body.status, t)
                     ELSE NullTime,
     priority |-> body.priority,
     assigned_to |-> body.assignedTo,
     assigned_name |-> IF body.assignedTo # Absent
                       THEN OrElse(body.assignedName, JNull) ELSE Absent,
     customer_archived |-> IF variant = "rest" THEN body.customerArchived ELSE Absent,
     admin_archived |-> IF variant = "rest" THEN body.adminArchived ELSE Absent]

UpdateCheck(p, outcome) ==
    /\ At(p, "update", "check")
    /\ outcome \in StoreOutcomes(req[p].variant)
    /\ LET r0 == [Called(req[p], "read_ticket") EXCEPT !.loc.check = outcome]
           b  == r0.body
           r1 == IF outcome = "throw" THEN Return(r0, 500, <<>>)
                 ELSE IF TicketNotFound(r0.variant, outcome, b.ticketId)
                      THEN Return(r0, 404, <<>>)
                 ELSE IF StatusRejected(b.status) THEN Return(r0, 400, <<>>)
                 ELSE IF PriorityRejected(b.priority) THEN Return(r0, 400, <<>>)
                 ELSE Goto([r0 EXCEPT !.loc.upd = UpdateData(r0.variant, b, now)],
                           "patch")
       IN  req' = [req EXCEPT ![p] = r1]
    /\ now' = IF req'[p].pc = "patch" THEN now + 1 ELSE now
    /\ storeFailed' = (storeFailed \/ outcome # "ok")
    /\ UNCHANGED <<tickets, messages, profiles, env, started>>

\* PATCH support_tickets?id=eq.<id> with the fields that updateData holds
Patched(t, upd) ==
    [t EXCEPT
       !.updated_at = IF upd.updated_at = NullTime THEN @ ELSE upd.updated_at,
       !.status = IF upd.status = Absent THEN @ ELSE upd.status,
       !.resolved_at = IF upd.resolved_at = NullTime THEN @ ELSE upd.resolved_at,
       !.priority = IF upd.priority = Absent THEN @ ELSE upd.priority,
       !.assigned_to = IF upd.assigned_to = Absent THEN @ ELSE upd.assigned_to,
       !.assigned_name = IF upd.assigned_name = Absent THEN @ ELSE upd.assigned_name,
       !.customer_archived =
            IF upd.customer_archived = Absent THEN @ ELSE upd.customer_archived,
       !.admin_archived =
            IF upd.admin_archived = Absent THEN @ ELSE upd.admin_archived]

PatchTickets(id, upd) ==
    [i \in 1..Len(tickets) |->
        IF tickets[i].id = id THEN Patched(tickets[i], upd) ELSE tickets[i]]

\* part_003 119-155 (sdk: ticket-create.js 437-466): a failed PATCH throws; a
\* PATCH that matched no row gives [] (rest: updatedTicket[0] is undefined and
\* reading .id throws) or a .single() error (sdk)
UpdatePatch(p, outcome) ==
    /\ At(p, "update", "patch")
    /\ outcome \in StoreOutcomes(req[p].variant)
    /\ LET r  == Called(req[p], "patch_ticket")
           id == r.body.ticketId
       IN  IF outcome = "ok"
           THEN /\ tickets' = PatchTickets(id, r.loc.upd)
                /\ req' = [req EXCEPT ![p] =
                             IF Len(RowsWithId(id)) = 0 THEN Return(r, 500, <<>>)
                             ELSE Return(r, 200, Patched(RowsWithId(id)[1], r.loc.upd))]
           ELSE /\ tickets' = tickets
                /\ req' = [req EXCEPT ![p] = Return(r, 500, <<>>)]
    /\ storeFailed' = (storeFailed \/ outcome # "ok")
    /\ UNCHANGED <<messages, profiles, now, env, started>>

(***************************************************************************)
(* ticket-reply.  src/netlify/functions/ticket-reply.js                    *)
(***************************************************************************)
\* mutant of ReplyInvalid: an empty attachments list counts as content
ReplyInvalid_EmptyListPasses(body) ==
    \/ body.ticketId = NoId
    \/ ~Truthy(body.message) /\ ~Truthy(body.attachments)

\* !ticketId || (!message && (!attachments || attachments.length === 0))
ReplyInvalid(body) ==
    \/ body.ticketId = NoId
    \/ /\ ~Truthy(body.message)
       /\ (~Truthy(body.attachments) \/ body.attachments = "[]")

StartReply(p, method, body) ==
    /\ req[p].pc = "idle"
    /\ started < MaxRequests
    /\ LET r0 == MethodGate(Invoke("reply", "rest", method, body), "POST")
           r1 == IF r0.pc = "done" THEN r0
                 ELSE IF ReplyInvalid(body) THEN Return(r0, 400, <<>>)
                 ELSE Goto(r0, "lookup")
       IN  req' = [req EXCEPT ![p] = r1]
    /\ started' = started + 1
    /\ UNCHANGED <<tickets, messages, profiles, now, env, storeFailed>>

FreshMessageId == Len(messages) + 1

\* messageData, ticket-reply.js 71-82
MessageData(body, id, t) ==
    [id |-> id,
     ticket_id |-> body.ticketId,
     message |-> IF Truthy(body.message) THEN body.message ELSE "(Attachment)",
     is_staff |-> OrElse(body.isStaff, JFalse),
     is_internal |-> OrElse(body.isInternal, JFalse),
     attachments |-> IF Truthy(body.attachments) /\ body.attachments # "[]"
                     THEN body.attachments ELSE JNull,
     created_at |-> t]

\* ticket-reply.js 47-82: an error body is an object without length and passes
\* the check; ticket = ticketData[0] is then undefined
ReplyLookup(p, outcome) ==
    /\ At(p, "reply", "lookup")
    /\ outcome \in StoreOutcomes("rest")
    /\ LET r0   == [Called(req[p], "read_ticket") EXCEPT !.loc.check = outcome]
           rows == RowsWithId(r0.body.ticketId)
           r1   == IF outcome = "throw" THEN Return(r0, 500, <<>>)
                   ELSE IF outcome = "ok" /\ Len(rows) = 0 THEN Return(r0, 404, <<>>)
                   ELSE Goto([r0 EXCEPT
                                !.loc.ticket = IF outcome = "ok" THEN rows[1] ELSE NoRow,
                                !.loc.msg = MessageData(r0.body, NoId, now)],
                             "insert")
       IN  req' = [req EXCEPT ![p] = r1]
    /\ now' = IF req'[p].pc = "insert" THEN now + 1 ELSE now
    /\ storeFailed' = (storeFailed \/ outcome # "ok")
    /\ UNCHANGED <<tickets, messages, profiles, env, started>>

\* if (isStaff && !isInternal) status = 'Pending'; else if (!isStaff) status = 'Open'
ReplyStatus(body) ==
    IF Truthy(body.isStaff) /\ ~Truthy(body.isInternal) THEN "Pending"
    ELSE IF ~Truthy(body.isStaff) THEN "Open"
    ELSE Absent

\* ticket-reply.js 84-116: insert the message; a failed insert throws
ReplyInsert(p, outcome) ==
    /\ At(p, "reply", "insert")
    /\ outcome \in StoreOutcomes("rest")
    /\ LET r   == Called(req[p], "insert_message")
           row == [r.loc.msg EXCEPT !.id = FreshMessageId]
       IN  IF outcome = "ok"
           THEN /\ messages' = Append(messages, row)
                /\ req' = [req EXCEPT ![p] =
                      Goto([r EXCEPT !.out = row,
                                     !.loc.upd = [NoUpdate EXCEPT
                                                    !.updated_at = now,
                                                    !.status = ReplyStatus(r.body)]],
                           "patch")]
                /\ now' = now + 1
           ELSE /\ messages' = messages
                /\ req' = [req EXCEPT ![p] = Return(r, 500, <<>>)]
                /\ now' = now
    /\ storeFailed' = (storeFailed \/ outcome # "ok")
    /\ UNCHANGED <<tickets, profiles, env, started>>

\* isStaff && !isInternal && ticket.customer_email
ReplyWantsNotify(r) ==
    /\ Truthy(r.body.isStaff)
    /\ ~Truthy(r.body.isInternal)
    /\ Truthy(r.loc.ticket.customer_email)

\* the store applies a PATCH that it answers with success
PatchApplied(outcome) == outcome = "ok"

\* ticket-reply.js 118-132: the PATCH's response is not looked at; a rejected
\* fetch is caught by the outer catch; reading ticket.customer_email of an
\* undefined ticket throws into the outer catch
ReplyPatch(p, outcome) ==
    /\ At(p, "reply", "patch")
    /\ outcome \in StoreOutcomes("rest")
    /\ LET r == Called(req[p], "patch_ticket")
       IN  /\ tickets' = IF PatchApplied(outcome)
                         THEN PatchTickets(r.body.ticketId, r.loc.upd)
                         ELSE tickets
           /\ req' = [req EXCEPT ![p] =
                 IF outcome = "throw" THEN Return(r, 500, <<>>)
                 ELSE IF Truthy(r.body.isStaff) /\ ~Truthy(r.body.isInternal)
                      THEN IF r.loc.ticket = NoRow THEN Return(r, 500, <<>>)
                           ELSE IF ReplyWantsNotify(r) THEN Goto(r, "notify")
                           ELSE Return(r, 200, r.out)
                      ELSE Return(r, 200, r.out)]
    /\ storeFailed' = (storeFailed \/ outcome # "ok")
    /\ UNCHANGED <<messages, profiles, now, env, started>>

\* ticket-reply.js 133-171: message.trim() of a missing message throws inside
\* the try, before fetch is called
ReplyNotify(p, outcome) ==
    /\ At(p, "reply", "notify")
    /\ outcome \in NotifyOutcomes
    /\ LET r == req[p]
       IN  req' = [req EXCEPT ![p] =
                IF r.body.message \in {Absent, JNull} THEN Return(r, 200, r.out)
                ELSE Return(Notified(r, "notify_customer", outcome),
                            NotifyResponse(outcome), r.out)]
    /\ UNCHANGED <<tickets, messages, profiles, now, env, storeFailed, started>>

(***************************************************************************)
(* ticket-messages.  variant "rest": src/netlify/functions/                *)
(* ticket-messages.js; variant "sdk": src/unnamed/part_000.                 *)
(* The ticketId query parameter is a string: the id it starts with (NoId    *)
(* for none) and whether a '#' character follows it.                        *)
(***************************************************************************)
EmptyString == [id |-> NoId, hash |-> FALSE]

StartMessages(p, variant, method, query) ==
    /\ req[p].pc = "idle"
    /\ started < MaxRequests
    /\ LET r0 == MethodGate(Invoke("messages", variant, method, query), "GET")
           r1 == IF r0.pc = "done" THEN r0
                 ELSE IF query.ticketId = EmptyString THEN Return(r0, 400, <<>>)
                 ELSE Goto(r0, "fetch")
       IN  req' = [req EXCEPT ![p] = r1]
    /\ started' = started + 1
    /\ UNCHANGED <<tickets, messages, profiles, now, env, storeFailed>>

\* includeInternal !== 'true'
WithoutInternal(includeInternal) == includeInternal # "true"

\* the URL string of ticket-messages.js 41-46, as its sequence of parts: the
\* ticketId is interpolated as it came, the filter on is_internal comes last
MessagesUrl(query) ==
    <<[part |-> "ticket_id=eq.", id |-> query.ticketId.id]>>
    \o (IF query.ticketId.hash THEN <<[part |-> "#", id |-> NoId]>> ELSE <<>>)
    \o <<[part |-> "&order=created_at.asc", id |-> NoId]>>
    \o (IF WithoutInternal(query.includeInternal)
        THEN <<[part |-> "&is_internal=eq.false", id |-> NoId]>> ELSE <<>>)

RECURSIVE WithoutFragment(_)
\* fetch(url): what follows the first '#' is the URL's fragment and is not
\* part of the request
WithoutFragment(url) ==
    IF url = <<>> \/ Head(url).part = "#" THEN <<>>
    ELSE <<Head(url)>> \o WithoutFragment(Tail(url))

HasPart(url, part) == \E i \in 1..Len(url) : url[i].part = part

RECURSIVE Insert(_, _)
Insert(m, sorted) ==
    IF sorted = <<>> THEN <<m>>
    ELSE IF m.created_at < Head(sorted).created_at THEN <<m>> \o sorted
    ELSE <<Head(sorted)>> \o Insert(m, Tail(sorted))

RECURSIVE OrderByCreatedAt(_)
\* order=created_at.asc; rows with the same created_at keep the table's order
OrderByCreatedAt(rows) ==
    IF rows = <<>> THEN <<>>
    ELSE Insert(rows[Len(rows)], OrderByCreatedAt(SubSeq(rows, 1, Len(rows) - 1)))

\* the rows the store returns for the request that reaches it
SelectMessages(url) ==
    LET rows == SelectSeq(messages, LAMBDA m :
                    /\ m.ticket_id = url[1].id
                    /\ HasPart(url, "&is_internal=eq.false") => m.is_internal = JFalse)
    IN  IF HasPart(url, "&order=created_at.asc") THEN OrderByCreatedAt(rows) ELSE rows

\* the query of part_000 46-56: the client encodes the value of each filter, so
\* a ticketId with a '#' is compared whole and equals no stored ticket_id
SelectMessagesSdk(query) ==
    OrderByCreatedAt(SelectSeq(messages, LAMBDA m :
        /\ ~query.ticketId.hash
        /\ m.ticket_id = query.ticketId.id
        /\ WithoutInternal(query.includeInternal) => m.is_internal = JFalse))

\* formattedMessages, ticket-messages.js 57-81
FormatMessage(m) ==
    [id |-> m.id, ticketId |-> m.ticket_id, message |-> m.message,
     isStaff |-> m.is_staff, isInternal |-> m.is_internal, createdAt |-> m.created_at]

FormatMessages(rows) == [i \in 1..Len(rows) |-> FormatMessage(rows[i])]

\* ticket-messages.js 48-102 / part_000 58-97: an error body has no map (rest)
\* or is thrown (sdk); both end in the catch
MessagesFetch(p, outcome) ==
    /\ At(p, "messages", "fetch")
    /\ outcome \in StoreOutcomes(req[p].variant)
    /\ LET r    == Called(req[p], "read_messages")
           rows == IF r.variant = "rest"
                   THEN SelectMessages(WithoutFragment(MessagesUrl(r.body)))
                   ELSE SelectMessagesSdk(r.body)
       IN  req' = [req EXCEPT ![p] =
                IF outcome = "ok" THEN Return(r, 200, FormatMessages(rows))
                ELSE Return(r, 500, <<>>)]
    /\ storeFailed' = (storeFailed \/ outcome # "ok")
    /\ UNCHANGED <<tickets, messages, profiles, now, env, started>>

(***************************************************************************)
(* Equipment profiles.  variant "main": src/netlify/functions/             *)
(* equipment-save.js lines 1-352; variant "alt": src/unnamed/part_001.      *)
(* A string is the sequence of its characters; a text field that is         *)
(* missing, null or '' is <<>> (both sanitizers map all three to '').       *)
(***************************************************************************)
MAX_MACHINES  == 500
MAX_FAVORITES == 4
MAX_TEXT      == 200

Min(a, b) == IF a < b THEN a ELSE b

\* mutant of StripAngle: only '<' is removed
StripAngle_OnlyLess(str) == SelectSeq(str, LAMBDA c : c # "<")

\* .replace(/[<>]/g, '')
StripAngle(str) == SelectSeq(str, LAMBDA c : c \notin {"<", ">"})

\* .substring(0, n) and .slice(0, n) for n >= 0
Substring(str, n) == SubSeq(str, 1, Min(n, Len(str)))

RECURSIVE TrimStart(_)
TrimStart(str) ==
    IF str # <<>> /\ Head(str) = " " THEN TrimStart(Tail(str)) ELSE str

RECURSIVE TrimEnd(_)
TrimEnd(str) ==
    IF str # <<>> /\ str[Len(str)] = " " THEN TrimEnd(SubSeq(str, 1, Len(str) - 1))
    ELSE str

\* .trim()
Trim(str) == TrimEnd(TrimStart(str))

\* sanitize, equipment-save.js 327-333
Sanitize(str) ==
    IF str = <<>> THEN <<>> ELSE Trim(Substring(StripAngle(str), MAX_TEXT))

\* s, part_001 53-55
S(str, len) ==
    IF str = <<>> THEN <<>> ELSE StripAngle(Substring(Trim(str), len))

\* 'eq_' + Date.now().toString(36)
GeneratedId(t) == <<"e", "q", "_", ToString(t)>>

\* mutant of CountFavorites: only the first MAX_FAVORITES machines are looked at
CountFavorites_FirstOnly(machines) ==
    Cardinality({i \in 1..Min(Len(machines), MAX_FAVORITES) : Truthy(machines[i].favorite)})

\* sanitize(machine.id) || ('eq_' + Date.now().toString(36))
SanitizedId(id, t) == IF Sanitize(id) # <<>> THEN Sanitize(id) ELSE GeneratedId(t)

\* the free-text fields, with the length part_001 41-44 gives each
TextFields ==
    {"id", "name", "category", "make", "type", "submodel", "model", "variant",
     "year", "trim", "engine", "serial", "sku"}

AltLength(f) == IF f = "name" THEN 100 ELSE IF f = "year" THEN 10 ELSE 50

\* sanitizeMachine, equipment-save.js 326-352 (no sku is written)
SanitizeMachine(m, t) ==
    [id        |-> SanitizedId(m.id, t),
     name      |-> Sanitize(m.name),
     category  |-> Sanitize(m.category),
     make      |-> Sanitize(m.make),
     type      |-> Sanitize(m.type),
     submodel  |-> Sanitize(m.submodel),
     model     |-> Sanitize(m.model),
     variant   |-> Sanitize(m.variant),
     year      |-> Sanitize(m.year),
     trim      |-> Sanitize(m.trim),
     engine    |-> Sanitize(m.engine),
     serial    |-> Sanitize(m.serial),
     sku       |-> <<>>,
     favorite  |-> IF Truthy(m.favorite) THEN JTrue ELSE JFalse,
     createdAt |-> IF m.createdAt # NullTime THEN m.createdAt ELSE t,
     updatedAt |-> t]

\* the callback of map in validateData, part_001 37-49 (no serial is written);
\* favoriteCount is the number of favorites kept among the machines before
AltMachine(m, favoriteCount, t) ==
    [id        |-> S(m.id, AltLength("id")),
     name      |-> S(m.name, AltLength("name")),
     category  |-> S(m.category, AltLength("category")),
     make      |-> S(m.make, AltLength("make")),
     type      |-> S(m.type, AltLength("type")),
     submodel  |-> S(m.submodel, AltLength("submodel")),
     model     |-> S(m.model, AltLength("model")),
     variant   |-> S(m.variant, AltLength("variant")),
     year      |-> S(m.year, AltLength("year")),
     trim      |-> S(m.trim, AltLength("trim")),
     engine    |-> S(m.engine, AltLength("engine")),
     serial    |-> <<>>,
     sku       |-> S(m.sku, AltLength("sku")),
     favorite  |-> IF Truthy(m.favorite)
                   THEN (IF favoriteCount < MAX_FAVORITES THEN JTrue ELSE JFalse)
                   ELSE m.favorite,
     createdAt |-> IF m.createdAt # NullTime THEN m.createdAt ELSE t,
     updatedAt |-> t]

\* machines.filter(m => m.favorite).length
CountFavorites(machines) ==
    Cardinality({i \in 1..Len(machines) : Truthy(machines[i].favorite)})

\* validateData, part_001 35-51: slice(0, 500), then at most 4 favorites kept
ValidateData(machines, t) ==
    LET kept   == Substring(machines, MAX_MACHINES)
        marked == {i \in 1..Len(kept) : Truthy(kept[i].favorite)}
    IN  [i \in 1..Len(kept) |->
            AltMachine(kept[i],
                       Min(Cardinality({j \in marked : j < i}), MAX_FAVORITES), t)]

\* the customers of the shop, and a customer without the metafield
Customers == {"c1", "c2"}

NoProfile == [set |-> FALSE, machines |-> <<>>]

\* A machine of a request; every free-text field carries the same text
InputMachine(text, favorite, createdAt) ==
    [id |-> text, name |-> text, category |-> text, make |-> text, type |-> text,
     submodel |-> text, model |-> text, variant |-> text, year |-> text,
     trim |-> text, engine |-> text, serial |-> text, sku |-> text,
     favorite |-> favorite, createdAt |-> createdAt]

\* JSON.parse(event.body), equipment-save.js 42 and part_001 18.  The text of
\* a machine list is kept by what it spells: n machines with the given text in
\* their fields, the first k of them marked favorite
ParseMachines(json) ==
    [i \in 1..json.n |->
        InputMachine(json.text, IF i <= json.k THEN JTrue ELSE JFalse, NullTime)]

ParseData(equipmentData) == [equipmentData EXCEPT !.machines = ParseMachines(@)]

\* saveEquipmentData up to the mutation, equipment-save.js 86-139: the invocation
\* r returns 400 or goes on to write the sanitized document
SaveEquipmentData(r, equipmentData, t) ==
    IF ~equipmentData.array THEN Return(r, 400, <<>>)
    ELSE IF Len(equipmentData.machines) > MAX_MACHINES THEN Return(r, 400, <<>>)
    ELSE IF CountFavorites(equipmentData.machines) > MAX_FAVORITES
         THEN Return(r, 400, <<>>)
    ELSE Goto([r EXCEPT !.loc.doc =
                    [i \in 1..Len(equipmentData.machines) |->
                        SanitizeMachine(equipmentData.machines[i], t)]],
              "mutate")

\* handler, equipment-save.js 4-83
MainDispatch(r, t) ==
    IF r.method = "OPTIONS" THEN Return(r, 200, <<>>)
    ELSE IF r.method = "GET"
         THEN IF r.body.action = "list-customers" THEN Goto(r, "list")
              ELSE IF r.body.action = "get-customer" /\ Truthy(r.body.customerId)
                   THEN Goto(r, "get")
              ELSE Return(r, 400, <<>>)
    ELSE IF r.method = "POST"
         THEN IF ~Truthy(r.body.customerId) THEN Return(r, 400, <<>>)
              ELSE IF r.body.action = "add" /\ r.body.hasEquipment THEN Goto(r, "add")
              ELSE IF r.body.equipmentData.present
                   THEN SaveEquipmentData(r, ParseData(r.body.equipmentData), t)
              ELSE Return(r, 400, <<>>)
    ELSE Return(r, 405, MethodNotAllowed)

\* handler, part_001 1-24
AltDispatch(r, t) ==
    IF r.method = "OPTIONS" THEN Return(r, 200, <<>>)
    ELSE IF r.method # "POST" THEN Return(r, 405, MethodNotAllowed)
    ELSE IF \/ ~Truthy(r.body.customerId)
            \/ ~r.body.equipmentData.present
            \/ ~r.body.equipmentData.array
         THEN Return(r, 400, <<>>)
    ELSE Goto([r EXCEPT !.loc.doc =
                    ValidateData(ParseData(r.body.equipmentData).machines, t)],
              "mutate")

StartEquipment(p, variant, method, body) ==
    /\ req[p].pc = "idle"
    /\ started < MaxRequests
    /\ LET r0 == Invoke("equipment", variant, method, body)
       IN  req' = [req EXCEPT ![p] =
                IF variant = "main" THEN MainDispatch(r0, now) ELSE AltDispatch(r0, now)]
    /\ now' = IF req'[p].pc = "mutate" THEN now + 1 ELSE now
    /\ started' = started + 1
    /\ UNCHANGED <<tickets, messages, profiles, env, storeFailed>>

\* outcomes of a call of the commerce API: "ok", "error" (errors or userErrors
\* in the answer, or no customer in it), "throw" (fetch rejects)
ApiOutcomes == {"ok", "error", "throw"}

\* fetchCustomerEquipment, equipment-save.js 279-323: the stored machines, or
\* [] when no metafield is set, when the answer holds none, or on a throw
FetchCustomerEquipment(customerId, outcome) ==
    IF outcome = "ok" THEN profiles[customerId].machines ELSE <<>>

\* addSingleEquipment, equipment-save.js 179-187
EquipmentAdd(p, outcome) ==
    /\ At(p, "equipment", "add")
    /\ outcome \in ApiOutcomes
    /\ LET current  == FetchCustomerEquipment(req[p].body.customerId, outcome)
           r        == [Called(req[p], "read_profile") EXCEPT !.loc.check = outcome,
                                                             !.loc.n = Len(current)]
           machines == Append(current, SanitizeMachine(r.body.equipment, now))
       IN  req' = [req EXCEPT ![p] =
                SaveEquipmentData(r, [present |-> TRUE, array |-> TRUE,
                                      machines |-> machines], now)]
    /\ now' = IF req'[p].pc = "mutate" THEN now + 1 ELSE now
    /\ storeFailed' = (storeFailed \/ outcome # "ok")
    /\ UNCHANGED <<tickets, messages, profiles, env, started>>

\* mutant of CustomerUpdate: the written machines are appended to the stored ones
CustomerUpdate_Appends(stored, doc) == [set |-> TRUE, machines |-> stored.machines \o doc]

\* customerUpdate with metafields: [{ key: "equipment_list", value: ... }],
\* equipment-save.js 129-139: the value replaces the stored one
CustomerUpdate(stored, doc) == [set |-> TRUE, machines |-> doc]

\* the customerUpdate mutation and the response: equipment-save.js 141-175,
\* part_001 24-32 and 57-97
EquipmentMutate(p, outcome) ==
    /\ At(p, "equipment", "mutate")
    /\ outcome \in ApiOutcomes
    /\ LET r == req[p]
       IN  IF r.variant = "alt" /\ ~env.SHOPIFY
           THEN /\ profiles' = profiles
                /\ req' = [req EXCEPT ![p] = Return([r EXCEPT !.loc.doc = <<>>], 500, <<>>)]
           ELSE /\ profiles' = IF outcome = "ok"
                               THEN [profiles EXCEPT ![r.body.customerId] =
                                        CustomerUpdate(@, r.loc.doc)]
                               ELSE profiles
                /\ req' = [req EXCEPT ![p] =
                      Return(Called([r EXCEPT !.loc.doc = <<>>], "write_profile"),
                             IF outcome = "ok" THEN 200 ELSE 500, <<>>)]
    /\ storeFailed' = (storeFailed \/ outcome # "ok")
    /\ UNCHANGED <<tickets, messages, now, env, started>>

\* getCustomerEquipment, equipment-save.js 268-276
EquipmentGet(p, outcome) ==
    /\ At(p, "equipment", "get")
    /\ outcome \in ApiOutcomes
    /\ LET r == Called(req[p], "read_profile")
       IN  req' = [req EXCEPT ![p] =
                Return(r, 200, FetchCustomerEquipment(r.body.customerId, outcome))]
    /\ storeFailed' = (storeFailed \/ outcome # "ok")
    /\ UNCHANGED <<tickets, messages, profiles, now, env, started>>

\* listCustomersWithEquipment, equipment-save.js 189-266: the customers with a
\* metafield, each with the number of its machines
EquipmentList(p, outcome) ==
    /\ At(p, "equipment", "list")
    /\ outcome \in ApiOutcomes
    /\ LET r == Called(req[p], "list_customers")
       IN  req' = [req EXCEPT ![p] =
                IF outcome = "ok"
                THEN Return(r, 200, [c \in {d \in Customers : profiles[d].set} |->
                                        Len(profiles[c].machines)])
                ELSE Return(r, 500, <<>>)]
    /\ storeFailed' = (storeFailed \/ outcome # "ok")
    /\ UNCHANGED <<tickets, messages, profiles, now, env, started>>

(***************************************************************************)
(* ticket-get.  variant "rest": src/netlify/functions/equipment-save.js    *)
(* lines 370-464; variant "sdk": src/unnamed/part_002.                     *)
(***************************************************************************)
\* equipment-save.js 383-423: a ticketId goes to the read of one ticket, else a
\* customerId is required
StartGet(p, variant, method, query) ==
    /\ req[p].pc = "idle"
    /\ started < MaxRequests
    /\ LET r0 == MethodGate(Invoke("get", variant, method, query), "GET")
           r1 == IF r0.pc = "done" THEN r0
                 ELSE IF query.ticketId # NoId THEN Goto(r0, "one")
                 ELSE IF ~Truthy(query.customerId) THEN Return(r0, 400, <<>>)
                 ELSE Goto(r0, "list")
       IN  req' = [req EXCEPT ![p] = r1]
    /\ started' = started + 1
    /\ UNCHANGED <<tickets, messages, profiles, now, env, storeFailed>>

\* formatTicket, part_002 121-140
FormatTicket(t) ==
    [id |-> t.id, ticketNumber |-> t.ticket_number, customerId |-> t.customer_id,
     customerEmail |-> t.customer_email, type |-> t.type, priority |-> t.priority,
     status |-> t.status, createdAt |-> t.created_at, updatedAt |-> t.updated_at]

FormatTickets(rows) == [i \in 1..Len(rows) |-> FormatTicket(rows[i])]

\* rest (equipment-save.js 387-413): an error body is an object without length,
\*       formatTicket(data[0]) then throws into the catch
\* sdk  (part_002 39-60): .single() answers an error unless one row matches
GetOne(p, outcome) ==
    /\ At(p, "get", "one")
    /\ outcome \in StoreOutcomes(req[p].variant)
    /\ LET r    == Called(req[p], "read_ticket")
           rows == RowsWithId(r.body.ticketId)
       IN  req' = [req EXCEPT ![p] =
                IF r.variant = "rest"
                THEN IF outcome # "ok" THEN Return(r, 500, <<>>)
                     ELSE IF Len(rows) = 0 THEN Return(r, 404, <<>>)
                     ELSE Return(r, 200, [ticket |-> FormatTicket(rows[1])])
                ELSE IF outcome # "ok" \/ Len(rows) # 1 THEN Return(r, 404, <<>>)
                     ELSE Return(r, 200, [ticket |-> FormatTicket(rows[1])])]
    /\ UNCHANGED <<tickets, messages, profiles, now, env, storeFailed, started>>

\* the digits of a query parameter (parseInt, &limit=, &offset=)
ParseInt(v) == CASE v = "0" -> 0 [] v = "1" -> 1 [] v = "2" -> 2 [] v = "50" -> 50

RECURSIVE InsertDesc(_, _)
InsertDesc(t, sorted) ==
    IF sorted = <<>> THEN <<t>>
    ELSE IF t.created_at > Head(sorted).created_at THEN <<t>> \o sorted
    ELSE <<Head(sorted)>> \o InsertDesc(t, Tail(sorted))

RECURSIVE OrderByCreatedAtDesc(_)
\* order=created_at.desc
OrderByCreatedAtDesc(rows) ==
    IF rows = <<>> THEN <<>>
    ELSE InsertDesc(rows[Len(rows)], OrderByCreatedAtDesc(SubSeq(rows, 1, Len(rows) - 1)))

\* rows offset+1 .. offset+limit of a result
Page(rows, offset, limit) ==
    SubSeq(rows, offset + 1, IF offset + limit < Len(rows) THEN offset + limit ELSE Len(rows))

\* equipment-save.js 425-436 / part_002 72-84: the tickets of the customer, newest
\* first, of the status asked for, at most limit of them
SelectTickets(query) ==
    LET rows == OrderByCreatedAtDesc(SelectSeq(tickets, LAMBDA t :
                    /\ t.customer_id = query.customerId
                    /\ Truthy(query.status) => t.status = query.status))
    IN  IF Truthy(query.limit) THEN Page(rows, 0, ParseInt(query.limit)) ELSE rows

\* equipment-save.js 438-464 / part_002 86-118: an error body has no map (rest)
\* or is thrown (sdk); both end in the catch
GetList(p, outcome) ==
    /\ At(p, "get", "list")
    /\ outcome \in StoreOutcomes(req[p].variant)
    /\ LET r    == Called(req[p], "read_tickets")
           rows == SelectTickets(r.body)
       IN  req' = [req EXCEPT ![p] =
                IF outcome = "ok"
                THEN Return(r, 200, [tickets |-> FormatTickets(rows), count |-> Len(rows)])
                ELSE Return(r, 500, <<>>)]
    /\ UNCHANGED <<tickets, messages, profiles, now, env, storeFailed, started>>

(***************************************************************************)
(* ticket-admin-list.  src/netlify/functions/ticket-admin-list.js:         *)
(* variant "rest" lines 17-102, variant "sdk" lines 124-209.               *)
(***************************************************************************)
StartAdminList(p, variant, method, query) ==
    /\ req[p].pc = "idle"
    /\ started < MaxRequests
    /\ LET r0 == MethodGate(Invoke("admin-list", variant, method, query), "GET")
       IN  req' = [req EXCEPT ![p] = IF r0.pc = "done" THEN r0 ELSE Goto(r0, "list")]
    /\ started' = started + 1
    /\ UNCHANGED <<tickets, messages, profiles, now, env, storeFailed>>

\* { status, type, priority, page = 1, limit = 50 }: the defaults replace
\* absent parameters only
PageOf(query)  == IF query.page = Absent THEN 1 ELSE ParseInt(query.page)
LimitOf(query) == IF query.limit = Absent THEN 50 ELSE ParseInt(query.limit)

\* ticket-admin-list.js 33-48 / 140-162: all tickets, newest first, filtered
AdminFiltered(query) ==
    OrderByCreatedAtDesc(SelectSeq(tickets, LAMBDA t :
        /\ Truthy(query.status) => t.status = query.status
        /\ Truthy(query.type) => t.type = query.type
        /\ Truthy(query.priority) => t.priority = query.priority))

\* ticket-admin-list.js 50-101 / 164-208
AdminListFetch(p, outcome) ==
    /\ At(p, "admin-list", "list")
    /\ outcome \in StoreOutcomes(req[p].variant)
    /\ LET r      == Called(req[p], "read_tickets")
           offset == (PageOf(r.body) - 1) * LimitOf(r.body)
           rows   == Page(AdminFiltered(r.body), offset, LimitOf(r.body))
       IN  req' = [req EXCEPT ![p] =
                IF outcome = "ok"
                THEN Return(r, 200, [tickets |-> FormatTickets(rows), count |-> Len(rows),
                                     page |-> PageOf(r.body), limit |-> LimitOf(r.body)])
                ELSE Return(r, 500, <<>>)]
    /\ UNCHANGED <<tickets, messages, profiles, now, env, storeFailed, started>>

(***************************************************************************)
(* ticket-notify.  src/netlify/functions/ticket-notify.js                  *)
(***************************************************************************)
NotificationTypes == {"admin_reply", "status_changed", "ticket_created", "new_ticket_admin"}

\* mutant of NotifierInvalid: a customer recipient is required
NotifierInvalid_NeedsCustomer(body) ==
    ~Truthy(body.customerEmail) \/ ~Truthy(body.ticketNumber)

\* (!customerEmail && !adminEmail) || !ticketNumber
NotifierInvalid(body) ==
    \/ ~Truthy(body.customerEmail) /\ ~Truthy(body.adminEmail)
    \/ ~Truthy(body.ticketNumber)

\* toEmail, as the switch sets it
ToEmail(body) ==
    IF body.type = "new_ticket_admin" THEN body.adminEmail ELSE body.customerEmail

\* { success: true, warning: 'Email not configured' }
NotConfigured == [success |-> JTrue, warning |-> "Email not configured"]

\* ticket-notify.js 20-103: method check, validation, credential, type switch
StartNotifier(p, method, body) ==
    /\ req[p].pc = "idle"
    /\ started < MaxRequests
    /\ LET r0 == MethodGate(Invoke("notify", "rest", method, body), "POST")
           r1 == IF r0.pc = "done" THEN r0
                 ELSE IF NotifierInvalid(body) THEN Return(r0, 400, <<>>)
                 ELSE IF ~env.RESEND_API_KEY THEN Return(r0, 200, NotConfigured)
                 ELSE IF body.type \notin NotificationTypes THEN Return(r0, 400, <<>>)
                 ELSE Goto(r0, "send")
       IN  req' = [req EXCEPT ![p] = r1]
    /\ started' = started + 1
    /\ UNCHANGED <<tickets, messages, profiles, now, env, storeFailed>>

\* ticket-notify.js 105-143: the call of the email provider; an error answer
\* throws into the catch
NotifierSend(p, outcome) ==
    /\ At(p, "notify", "send")
    /\ outcome \in {"ok", "error", "throw"}
    /\ LET r == Called(req[p], "send_email")
       IN  req' = [req EXCEPT ![p] =
                IF outcome = "ok"
                THEN Return(r, 200, [success |-> JTrue, emailId |-> ToEmail(r.body)])
                ELSE Return(r, 500, <<>>)]
    /\ UNCHANGED <<tickets, messages, profiles, now, env, storeFailed, started>>

\* the response has been delivered; the process can serve another invocation
Finish(p) ==
    /\ req[p].pc = "done"
    /\ req' = [req EXCEPT ![p] = Idle]
    /\ UNCHANGED <<tickets, messages, profiles, now, env, storeFailed, started>>

(***************************************************************************)
(* Initial state: empty tables, no stored profile, no invocation running.  *)
(***************************************************************************)
Init ==
    /\ tickets = <<>>
    /\ messages = <<>>
    /\ profiles = [c \in Customers |-> NoProfile]
    /\ req = [p \in Procs |-> Idle]
    /\ now = 1
    /\ env \in [ADMIN_EMAIL : BOOLEAN, SHOPIFY : {TRUE}]
    /\ storeFailed = FALSE
    /\ started = 0

\* no invocation is running: the next one is processed alone
Quiet == \A q \in Procs : req[q].pc = "idle"

(***************************************************************************)
(* Request bodies of ticket-create.                                        *)
(***************************************************************************)
CreateBody(email, priority, subject) ==
    [customerId |-> "42", customerEmail |-> email, type |-> "general",
     priority |-> priority, subject |-> subject, description |-> "Need help"]

CreateBodies ==
    { CreateBody("a@x", Absent, "Help"),
      CreateBody(Absent, "urgent", "Help"),
      CreateBody(Absent, Absent, "") }

Variants == {"rest", "sdk"}

CreateSteps(p) ==
    \/ \E o \in {"ok", "error", "throw"} : CreateReadNumber(p, o)
    \/ \E o \in {"ok", "error", "throw"} : CreateInsert(p, o)
    \/ \E o \in NotifyOutcomes : CreateNotifyCustomer(p, o)
    \/ \E o \in NotifyOutcomes : CreateNotifyAdmin(p, o)

(***************************************************************************)
(* Spec: ticket-create invocations running concurrently.                   *)
(***************************************************************************)
MaxConcurrent == 2

InitConcurrent ==
    /\ tickets = <<>>
    /\ messages = <<>>
    /\ profiles = [c \in Customers |-> NoProfile]
    /\ req = [p \in Procs |-> Idle]
    /\ now = 1
    /\ env \in [ADMIN_EMAIL : BOOLEAN, SHOPIFY : {TRUE}]
    /\ storeFailed = FALSE
    /\ started = MaxRequests - MaxConcurrent

Next ==
    \E p \in Procs :
        \/ \E v \in Variants, b \in CreateBodies : StartCreate(p, v, "POST", b)
        \/ CreateSteps(p)
        \/ Finish(p)

Spec == InitConcurrent /\ [][Next]_vars

(***************************************************************************)
(* SpecSeq: ticket-create invocations processed one at a time.             *)
(***************************************************************************)
NextSeq ==
    \E p \in Procs :
        \/ /\ Quiet
           /\ \E v \in Variants, b \in CreateBodies : StartCreate(p, v, "POST", b)
        \/ CreateSteps(p)
        \/ Finish(p)

SpecSeq == Init /\ [][NextSeq]_vars

(***************************************************************************)
(* SpecUpdate: ticket-update invocations, one at a time, on a store that    *)
(* holds one ticket in a state that create, update and reply can leave it   *)
(* in (a resolved ticket has its resolved_at; a reopened one keeps it).     *)
(***************************************************************************)
MaxUpdates == 2

SeedRequest ==
    [Invoke("create", "rest", "POST", CreateBody("a@x", Absent, "Help"))
        EXCEPT !.loc.n = FirstTicketNumber]

StoredTicket(status, resolved) ==
    [TicketData(SeedRequest, 1, 1) EXCEPT !.status = status, !.resolved_at = resolved]

StoredTickets ==
    { StoredTicket(st, res) : st \in {"Open", "Pending"}, res \in {NullTime, 1} }
    \cup { StoredTicket(st, 1) : st \in {"Resolved", "Closed"} }

InitUpdate ==
    /\ tickets \in { <<t>> : t \in StoredTickets }
    /\ messages = <<>>
    /\ profiles = [c \in Customers |-> NoProfile]
    /\ req = [p \in Procs |-> Idle]
    /\ now = 2
    /\ env = [ADMIN_EMAIL |-> TRUE, SHOPIFY |-> TRUE]
    /\ storeFailed = FALSE
    /\ started = MaxRequests - MaxUpdates

UpdateBody(id, status, priority, assignedTo, assignedName, cArch, aArch) ==
    [ticketId |-> id, status |-> status, priority |-> priority,
     assignedTo |-> assignedTo, assignedName |-> assignedName,
     customerArchived |-> cArch, adminArchived |-> aArch]

\* each optional field alone, with an allowed and with another value; a status
\* with a priority; a ticket id that is not stored; no ticket id
UpdateBodies ==
    { UpdateBody(1, st, Absent, Absent, Absent, Absent, Absent) :
        st \in {JNull, "Open", "Pending", "Resolved", "Closed", "Done"} }
    \cup { UpdateBody(1, Absent, pr, Absent, Absent, Absent, Absent) :
        pr \in {Absent, "high", "low"} }
    \cup { UpdateBody(1, "Closed", "low", Absent, Absent, Absent, Absent),
           UpdateBody(1, "Done", "urgent", Absent, Absent, Absent, Absent),
           UpdateBody(1, Absent, Absent, "u1", "Ann", Absent, Absent),
           UpdateBody(1, Absent, Absent, "u2", Absent, Absent, Absent),
           UpdateBody(1, Absent, Absent, Absent, Absent, JTrue, Absent),
           UpdateBody(1, Absent, Absent, Absent, Absent, Absent, JTrue),
           UpdateBody(7, "Closed", Absent, Absent, Absent, Absent, Absent),
           UpdateBody(7, "Done", Absent, Absent, Absent, Absent, Absent),
           UpdateBody(NoId, "Closed", Absent, Absent, Absent, Absent, Absent) }

UpdateSteps(p) ==
    \/ \E o \in {"ok", "error", "throw"} : UpdateCheck(p, o)
    \/ \E o \in {"ok", "error", "throw"} : UpdatePatch(p, o)

NextUpdate ==
    \E p \in Procs :
        \/ /\ Quiet
           /\ \E v \in Variants, b \in UpdateBodies : StartUpdate(p, v, "POST", b)
        \/ UpdateSteps(p)
        \/ Finish(p)

SpecUpdate == InitUpdate /\ [][NextUpdate]_vars

(***************************************************************************)
(* SpecReply: ticket-reply invocations, one at a time, on a store that      *)
(* holds one ticket, with or without a customer email.                      *)
(***************************************************************************)
MaxReplies == 2

InitReply ==
    /\ tickets \in { <<[t EXCEPT !.customer_email = e]>> :
                        t \in StoredTickets, e \in {"a@x", JNull} }
    /\ messages = <<>>
    /\ profiles = [c \in Customers |-> NoProfile]
    /\ req = [p \in Procs |-> Idle]
    /\ now = 2
    /\ env = [ADMIN_EMAIL |-> TRUE, SHOPIFY |-> TRUE]
    /\ storeFailed = FALSE
    /\ started = MaxRequests - MaxReplies

ReplyBody(id, message, attachments, isStaff, isInternal) ==
    [ticketId |-> id, message |-> message, attachments |-> attachments,
     isStaff |-> isStaff, isInternal |-> isInternal]

ReplyBodies ==
    { ReplyBody(1, "hi", Absent, st, in) :
        st \in {Absent, JTrue, JFalse}, in \in {Absent, JTrue} }
    \cup { ReplyBody(1, Absent, "[a]", JTrue, JFalse),
           ReplyBody(1, Absent, "[a]", Absent, Absent),
           ReplyBody(1, Absent, "[]", Absent, Absent),
           ReplyBody(1, "", Absent, JTrue, Absent),
           ReplyBody(7, "hi", Absent, Absent, Absent),
           ReplyBody(NoId, "hi", Absent, Absent, Absent) }

ReplySteps(p) ==
    \/ \E o \in {"ok", "error", "throw"} : ReplyLookup(p, o)
    \/ \E o \in {"ok", "error", "throw"} : ReplyInsert(p, o)
    \/ \E o \in {"ok", "error", "throw"} : ReplyPatch(p, o)
    \/ \E o \in NotifyOutcomes : ReplyNotify(p, o)

NextReply ==
    \E p \in Procs :
        \/ /\ Quiet
           /\ \E b \in ReplyBodies : StartReply(p, "POST", b)
        \/ ReplySteps(p)
        \/ Finish(p)

SpecReply == InitReply /\ [][NextReply]_vars

(***************************************************************************)
(* SpecMessages: ticket-messages invocations over a table of messages of    *)
(* two tickets, as replies of customers and staff leave it.                  *)
(***************************************************************************)
MaxMessages == 3
MaxReads    == 1

StoredMessage(ticket, staff, internal) ==
    MessageData(ReplyBody(ticket, "hi", Absent, staff, internal), NoId, NullTime)

StoredMessages ==
    { StoredMessage(t, st, in) : t \in {1, 2}, st \in {JTrue, JFalse}, in \in {JTrue, JFalse} }

\* tables of n rows; created_at follows the order of insertion or, for replies
\* that overlapped, runs against it
MessageTables ==
    UNION { { [i \in 1..n |-> [f[i] EXCEPT !.id = i,
                                           !.created_at = IF rev THEN n + 2 - i ELSE i + 1]] :
                f \in [1..n -> StoredMessages], rev \in BOOLEAN } : n \in 0..MaxMessages }

InitMessages ==
    /\ tickets = << StoredTicket("Open", NullTime),
                    [StoredTicket("Pending", NullTime) EXCEPT !.id = 2,
                                                              !.ticket_number = 1002] >>
    /\ messages \in MessageTables
    /\ profiles = [c \in Customers |-> NoProfile]
    /\ req = [p \in Procs |-> Idle]
    /\ now = MaxMessages + 2
    /\ env = [ADMIN_EMAIL |-> TRUE, SHOPIFY |-> TRUE]
    /\ storeFailed = FALSE
    /\ started = MaxRequests - MaxReads

MessageQueries ==
    { [ticketId |-> [id |-> 1, hash |-> FALSE], includeInternal |-> inc] :
        inc \in {Absent, "true", "false", "TRUE", "1", ""} }
    \cup { [ticketId |-> [id |-> t, hash |-> h], includeInternal |-> Absent] :
             t \in {NoId, 1, 2, 7}, h \in BOOLEAN }

NextMessages ==
    \E p \in Procs :
        \/ /\ Quiet
           /\ \E v \in Variants, q \in MessageQueries : StartMessages(p, v, "GET", q)
        \/ \E o \in {"ok", "error", "throw"} : MessagesFetch(p, o)
        \/ Finish(p)

SpecMessages == InitMessages /\ [][NextMessages]_vars

(***************************************************************************)
(* Equipment requests.  A machine of a request carries one text in every   *)
(* free-text field: leading and trailing characters around a run of "a"    *)
(* whose length is at, just under or just over one of the limits.          *)
(***************************************************************************)
MaxAffix == 1

Alphabet == {" ", "<", ">"}

RECURSIVE Affixes(_)
Affixes(n) ==
    IF n = 0 THEN {<<>>}
    ELSE Affixes(n - 1) \cup {Append(a, c) : a \in Affixes(n - 1), c \in Alphabet}

Limits == {MAX_TEXT} \cup {AltLength(f) : f \in TextFields}

PadLengths == {0} \cup UNION {{L - 1, L, L + 1} : L \in Limits}

Pad(n) == [i \in 1..n |-> "a"]

Texts ==
    {pre \o Pad(n) \o post :
        pre \in Affixes(MaxAffix), n \in PadLengths, post \in Affixes(MaxAffix)}

NoMachine == InputMachine(<<>>, Absent, NullTime)

\* the text of a list of n machines, see ParseMachines
ListOf(n, k, text) == [n |-> n, k |-> k, text |-> text]

NoData == [present |-> FALSE, array |-> FALSE, machines |-> ListOf(0, 0, <<>>)]

\* { customerId, equipmentData: { machines } }
SaveBody(customerId, machines) ==
    [customerId |-> customerId, action |-> Absent,
     hasEquipment |-> FALSE, equipment |-> NoMachine,
     equipmentData |-> [present |-> TRUE, array |-> TRUE, machines |-> machines]]

\* { customerId, action: 'add', equipment }
AddBody(customerId, machine) ==
    [customerId |-> customerId, action |-> "add",
     hasEquipment |-> TRUE, equipment |-> machine, equipmentData |-> NoData]

\* ?action=...&customerId=...
QueryBody(customerId, action) ==
    [customerId |-> customerId, action |-> action,
     hasEquipment |-> FALSE, equipment |-> NoMachine, equipmentData |-> NoData]


InitSanitize ==
    /\ Init
    /\ env.ADMIN_EMAIL

\* one request, a save of one machine through either variant or an add
NextSanitize ==
    \E p \in Procs :
        \/ /\ started = 0
           /\ \E t \in Texts :
                \/ \E v \in {"main", "alt"} :
                        StartEquipment(p, v, "POST", SaveBody("c1", ListOf(1, 0, t)))
                \/ StartEquipment(p, "main", "POST",
                                  AddBody("c1", InputMachine(t, Absent, NullTime)))
        \/ \E o \in ApiOutcomes : EquipmentAdd(p, o)
        \/ \E o \in ApiOutcomes : EquipmentMutate(p, o)
        \/ Finish(p)

SpecSanitize == InitSanitize /\ [][NextSanitize]_vars

(***************************************************************************)
(* Equipment requests on lists at the limits: n machines of which the      *)
(* first k are marked favorite, n around MAX_MACHINES and k around         *)
(* MAX_FAVORITES.                                                          *)
(***************************************************************************)
MaxOver  == 1
MaxEquip == 1

ListSizes == {MAX_FAVORITES + MaxOver, MAX_MACHINES, MAX_MACHINES + MaxOver}

FavoriteCounts == {0, MAX_FAVORITES, MAX_FAVORITES + MaxOver}

Lists ==
    {ListOf(n, 0, <<"m">>) : n \in ListSizes}
        \cup {ListOf(MAX_FAVORITES + MaxOver, k, <<"m">>) : k \in FavoriteCounts}
        \cup {ListOf(MAX_MACHINES, MAX_FAVORITES, <<"m">>),
              ListOf(MAX_MACHINES + MaxOver, MAX_FAVORITES + MaxOver, <<"m">>)}

NotAnArray == [present |-> TRUE, array |-> FALSE, machines |-> ListOf(0, 0, <<>>)]

EquipPosts ==
    {SaveBody("c1", l) : l \in Lists}
        \cup {AddBody("c1", InputMachine(<<"m">>, f, NullTime)) : f \in {JTrue, Absent}}
        \cup {SaveBody(Absent, ListOf(0, 0, <<>>)),
              [SaveBody("c1", ListOf(0, 0, <<>>)) EXCEPT !.equipmentData = NotAnArray],
              [SaveBody("c1", ListOf(0, 0, <<>>)) EXCEPT !.equipmentData = NoData]}

EquipQueries ==
    {QueryBody("c1", "get-customer"), QueryBody(Absent, "get-customer"),
     QueryBody(Absent, "list-customers")}

\* the profile a successful save of the main variant has stored at time 1
SavedProfile(json) ==
    [set |-> TRUE,
     machines |-> [i \in 1..json.n |-> SanitizeMachine(ParseMachines(json)[i], 1)]]

\* customer c1 has no profile, or one with room for one more machine and one
\* more favorite, or a full one
StoredProfiles ==
    {NoProfile,
     SavedProfile(ListOf(MAX_MACHINES - 1, MAX_FAVORITES - 1, <<"m">>)),
     SavedProfile(ListOf(MAX_MACHINES, MAX_FAVORITES, <<"m">>))}

InitEquip ==
    /\ tickets = <<>>
    /\ messages = <<>>
    /\ \E pr \in StoredProfiles : profiles = [c \in Customers |-> IF c = "c1" THEN pr ELSE NoProfile]
    /\ req = [p \in Procs |-> Idle]
    /\ now = 2
    /\ env = [ADMIN_EMAIL |-> TRUE, SHOPIFY |-> TRUE]
    /\ storeFailed = FALSE
    /\ started = MaxRequests - MaxEquip

\* the invocations are interchangeable: a new one takes the first free process
FirstFree(p) == \A q \in Procs : q < p => req[q].pc # "idle"

NextEquip ==
    \E p \in Procs :
        \/ /\ FirstFree(p)
           /\ \/ \E v \in {"main", "alt"}, b \in EquipPosts :
                    StartEquipment(p, v, "POST", b)
              \/ \E b \in EquipQueries : StartEquipment(p, "main", "GET", b)
              \/ \E v \in {"main", "alt"}, m \in {"OPTIONS", "PUT"} :
                    StartEquipment(p, v, m, QueryBody(Absent, Absent))
        \/ \E o \in ApiOutcomes : EquipmentAdd(p, o)
        \/ \E o \in ApiOutcomes : EquipmentMutate(p, o)
        \/ \E o \in ApiOutcomes : EquipmentGet(p, o)
        \/ \E o \in ApiOutcomes : EquipmentList(p, o)
        \/ Finish(p)

SpecEquip == InitEquip /\ [][NextEquip]_vars

(***************************************************************************)
(* Adds of single items that overlap: short profiles, machines told apart  *)
(* by their id.                                                            *)
(***************************************************************************)
MaxAdds == 2

AddedIds == {"a", "b"}

InitRace ==
    /\ tickets = <<>>
    /\ messages = <<>>
    /\ \E n \in 0..1 :
          profiles = [c \in Customers |->
                        IF c = "c1" /\ n > 0 THEN SavedProfile(ListOf(n, 0, <<"m">>))
                        ELSE NoProfile]
    /\ req = [p \in Procs |-> Idle]
    /\ now = 2
    /\ env = [ADMIN_EMAIL |-> TRUE, SHOPIFY |-> TRUE]
    /\ storeFailed = FALSE
    /\ started = MaxRequests - MaxAdds

NextRace ==
    \E p \in Procs :
        \/ /\ FirstFree(p)
           /\ \E x \in AddedIds :
                StartEquipment(p, "main", "POST",
                               AddBody("c1", InputMachine(<<x>>, Absent, NullTime)))
        \/ \E o \in ApiOutcomes : EquipmentAdd(p, o)
        \/ \E o \in ApiOutcomes : EquipmentMutate(p, o)
        \/ Finish(p)

SpecRace == InitRace /\ [][NextRace]_vars

(***************************************************************************)
(* SpecNotify: ticket-create and ticket-reply invocations, one at a time,   *)
(* on a store that holds one ticket.                                        *)
(***************************************************************************)
MaxNotify == 1

InitNotify ==
    /\ tickets = <<[StoredTicket("Open", NullTime) EXCEPT !.customer_email = "a@x"]>>
    /\ messages = <<>>
    /\ profiles = [c \in Customers |-> NoProfile]
    /\ req = [p \in Procs |-> Idle]
    /\ now = 2
    /\ env \in [ADMIN_EMAIL : BOOLEAN, SHOPIFY : {TRUE}]
    /\ storeFailed = FALSE
    /\ started = MaxRequests - MaxNotify

NextNotify ==
    \E p \in Procs :
        \/ /\ Quiet
           /\ \/ \E v \in Variants, b \in CreateBodies : StartCreate(p, v, "POST", b)
              \/ \E b \in ReplyBodies : StartReply(p, "POST", b)
        \/ CreateSteps(p)
        \/ ReplySteps(p)
        \/ Finish(p)

SpecNotify == InitNotify /\ [][NextNotify]_vars

(***************************************************************************)
(* SpecNotifyLive: SpecNotify with progress.  The data store answers every *)
(* call and the handler runs its own code; nothing makes the notifier      *)
(* answer, and await fetch(notifyUrl) has no timeout.                      *)
(***************************************************************************)
\* invocation p is at an await fetch(notifyUrl, ...)
AwaitsNotifier(p) ==
    \/ At(p, "create", "notify_customer") /\ Truthy(req[p].body.customerEmail)
    \/ At(p, "create", "notify_admin") /\ env.ADMIN_EMAIL
    \/ At(p, "reply", "notify") /\ req[p].body.message \notin {Absent, JNull}

\* a step of invocation p that does not wait for the notifier
Progress(p) ==
    /\ ~AwaitsNotifier(p)
    /\ (CreateSteps(p) \/ ReplySteps(p) \/ Finish(p))

SpecNotifyLive ==
    InitNotify /\ [][NextNotify]_vars /\ \A p \in Procs : WF_vars(Progress(p))

(***************************************************************************)
(* SpecCreateInput: ticket-create invocations, one at a time, whose        *)
(* required fields are present, missing, null or empty.                    *)
(***************************************************************************)
MaxCreates == 1

CreateInputs ==
    { [CreateBody("a@x", Absent, s) EXCEPT !.customerId = c, !.type = ty,
                                          !.description = de] :
        c \in {"42", Absent, JNull, ""}, ty \in {"general", Absent, JNull, ""},
        s \in {"Help", Absent, JNull, ""}, de \in {"Need help", Absent, JNull, ""} }

InitCreateInput ==
    /\ tickets = <<>>
    /\ messages = <<>>
    /\ profiles = [c \in Customers |-> NoProfile]
    /\ req = [p \in Procs |-> Idle]
    /\ now = 1
    /\ env = [ADMIN_EMAIL |-> TRUE, SHOPIFY |-> TRUE]
    /\ storeFailed = FALSE
    /\ started = MaxRequests - MaxCreates

NextCreateInput ==
    \E p \in Procs :
        \/ /\ Quiet
           /\ \E v \in Variants, b \in CreateInputs : StartCreate(p, v, "POST", b)
        \/ CreateSteps(p)
        \/ Finish(p)

SpecCreateInput == InitCreateInput /\ [][NextCreateInput]_vars

(***************************************************************************)
(* SpecNotifier: ticket-notify invocations, with and without the           *)
(* credential of the email provider.                                       *)
(***************************************************************************)
MaxNotifications == 1

NotifierBodies ==
    [type : NotificationTypes \cup {"bogus", Absent},
     customerEmail : {"a@x", Absent},
     adminEmail : {"adm@x", Absent},
     ticketNumber : {"1001", Absent}]

InitNotifier ==
    /\ tickets = <<>>
    /\ messages = <<>>
    /\ profiles = [c \in Customers |-> NoProfile]
    /\ req = [p \in Procs |-> Idle]
    /\ now = 1
    /\ env \in [ADMIN_EMAIL : {TRUE}, SHOPIFY : {TRUE}, RESEND_API_KEY : BOOLEAN]
    /\ storeFailed = FALSE
    /\ started = MaxRequests - MaxNotifications

NextNotifier ==
    \E p \in Procs :
        \/ \E b \in NotifierBodies : StartNotifier(p, "POST", b)
        \/ \E o \in {"ok", "error", "throw"} : NotifierSend(p, o)
        \/ Finish(p)

SpecNotifier == InitNotifier /\ [][NextNotifier]_vars

(***************************************************************************)
(* SpecMethods: one invocation of any handler, in any variant, with any    *)
(* method, on a store that holds a ticket, a message and a profile.        *)
(***************************************************************************)
MaxCalls == 1

Methods == {"OPTIONS", "GET", "POST", "PUT", "DELETE"}

GetQueries ==
    { [ticketId |-> t, customerId |-> c, status |-> st, limit |-> l] :
        t \in {NoId, 1, 7}, c \in {Absent, "42"}, st \in {Absent, "Open"},
        l \in {Absent, "1"} }

AdminQueries ==
    { [status |-> st, type |-> Absent, priority |-> pr, page |-> pg, limit |-> l] :
        st \in {Absent, "Open"}, pr \in {Absent, "high"}, pg \in {Absent, "2"},
        l \in {Absent, "1"} }

InitMethods ==
    /\ tickets = << StoredTicket("Open", NullTime) >>
    /\ messages = << [StoredMessage(1, JTrue, JFalse) EXCEPT !.id = 1, !.created_at = 2] >>
    /\ profiles = [c \in Customers |->
                        IF c = "c1" THEN SavedProfile(ListOf(1, 0, <<"m">>)) ELSE NoProfile]
    /\ req = [p \in Procs |-> Idle]
    /\ now = 3
    /\ env = [ADMIN_EMAIL |-> TRUE, SHOPIFY |-> TRUE, RESEND_API_KEY |-> TRUE]
    /\ storeFailed = FALSE
    /\ started = MaxRequests - MaxCalls

NextMethods ==
    \E p \in Procs :
        \/ /\ Quiet
           /\ \E m \in Methods :
                \/ \E v \in Variants : StartCreate(p, v, m, CreateBody("a@x", Absent, "Help"))
                \/ \E v \in Variants :
                        StartUpdate(p, v, m, UpdateBody(1, "Closed", Absent, Absent, Absent,
                                                        Absent, Absent))
                \/ StartReply(p, m, ReplyBody(1, "hi", Absent, JTrue, JFalse))
                \/ \E v \in Variants :
                        StartMessages(p, v, m, [ticketId |-> [id |-> 1, hash |-> FALSE],
                                                includeInternal |-> Absent])
                \/ \E v \in Variants, q \in GetQueries : StartGet(p, v, m, q)
                \/ \E v \in Variants, q \in AdminQueries : StartAdminList(p, v, m, q)
                \/ StartNotifier(p, m, [type |-> "admin_reply", customerEmail |-> "a@x",
                                        adminEmail |-> Absent, ticketNumber |-> "1001"])
                \/ \E v \in {"main", "alt"},
                      b \in { SaveBody("c1", ListOf(1, 1, <<"n">>)),
                              AddBody("c1", InputMachine(<<"n">>, Absent, NullTime)),
                              QueryBody("c1", "get-customer"),
                              QueryBody(Absent, "list-customers") } :
                        StartEquipment(p, v, m, b)
        \/ CreateSteps(p)
        \/ UpdateSteps(p)
        \/ ReplySteps(p)
        \/ \E o \in {"ok", "error", "throw"} : MessagesFetch(p, o)
        \/ \E o \in {"ok", "error", "throw"} : GetOne(p, o)
        \/ \E o \in {"ok", "error", "throw"} : GetList(p, o)
        \/ \E o \in {"ok", "error", "throw"} : AdminListFetch(p, o)
        \/ \E o \in {"ok", "error", "throw"} : NotifierSend(p, o)
        \/ \E o \in ApiOutcomes : EquipmentAdd(p, o)
        \/ \E o \in ApiOutcomes : EquipmentMutate(p, o)
        \/ \E o \in ApiOutcomes : EquipmentGet(p, o)
        \/ \E o \in ApiOutcomes : EquipmentList(p, o)
        \/ Finish(p)

SpecMethods == InitMethods /\ [][NextMethods]_vars

(***************************************************************************)
(* SpecAdd: adds of single items processed one at a time, for a customer   *)
(* with no profile, a profile with room, or a full profile.                *)
(***************************************************************************)
NextAdd ==
    \E p \in Procs :
        \/ /\ Quiet
           /\ \E x \in AddedIds, f \in {JTrue, Absent} :
                StartEquipment(p, "main", "POST",
                               AddBody("c1", InputMachine(<<x>>, f, NullTime)))
        \/ \E o \in ApiOutcomes : EquipmentAdd(p, o)
        \/ \E o \in ApiOutcomes : EquipmentMutate(p, o)
        \/ Finish(p)

SpecAdd == InitEquip /\ [][NextAdd]_vars

(***************************************************************************)
(* SpecLifecycle: ticket-create, ticket-update and ticket-reply requests   *)
(* one at a time, starting from an empty store; the requests carry values  *)
(* inside and outside the enumerations of type, priority and status.       *)
(***************************************************************************)
MaxLifecycle == 2

LifecycleCreates ==
    { [CreateBody("a@x", pr, "Help") EXCEPT !.type = ty] :
        ty \in {"general", "bogus"}, pr \in {Absent, "high", "low"} }

LifecycleUpdates ==
    { UpdateBody(1, st, pr, Absent, Absent, Absent, Absent) :
        st \in {Absent, "Resolved", "Done"}, pr \in {Absent, "urgent", "low"} }

LifecycleReplies ==
    { ReplyBody(1, "hi", Absent, st, Absent) : st \in {Absent, JTrue} }

InitLifecycle ==
    /\ tickets = <<>>
    /\ messages = <<>>
    /\ profiles = [c \in Customers |-> NoProfile]
    /\ req = [p \in Procs |-> Idle]
    /\ now = 1
    /\ env = [ADMIN_EMAIL |-> FALSE, SHOPIFY |-> TRUE]
    /\ storeFailed = FALSE
    /\ started = MaxRequests - MaxLifecycle

NextLifecycle ==
    \E p \in Procs :
        \/ /\ Quiet
           /\ \/ \E v \in Variants, b \in LifecycleCreates : StartCreate(p, v, "POST", b)
              \/ \E v \in Variants, b \in LifecycleUpdates : StartUpdate(p, v, "POST", b)
              \/ \E b \in LifecycleReplies : StartReply(p, "POST", b)
        \/ CreateSteps(p)
        \/ UpdateSteps(p)
        \/ ReplySteps(p)
        \/ Finish(p)

SpecLifecycle == InitLifecycle /\ [][NextLifecycle]_vars

(***************************************************************************)
(* SpecReplyRace: a reply of the customer and a reply of staff to the same *)
(* ticket that overlap.                                                    *)
(***************************************************************************)
MaxOverlap == 2

InitReplyRace ==
    /\ tickets \in { <<StoredTicket(st, NullTime)>> : st \in {"Open", "Pending"} }
    /\ messages = <<>>
    /\ profiles = [c \in Customers |-> NoProfile]
    /\ req = [p \in Procs |-> Idle]
    /\ now = 2
    /\ env = [ADMIN_EMAIL |-> TRUE, SHOPIFY |-> TRUE]
    /\ storeFailed = FALSE
    /\ started = MaxRequests - MaxOverlap

NextReplyRace ==
    \E p \in Procs :
        \/ /\ FirstFree(p)
           /\ \E st \in {JTrue, JFalse} :
                StartReply(p, "POST", ReplyBody(1, "hi", Absent, st, JFalse))
        \/ ReplySteps(p)
        \/ Finish(p)

SpecReplyRace == InitReplyRace /\ [][NextReplyRace]_vars

(***************************************************************************)
(* SpecResave: one save of one machine, through either variant, or one add; *)
(* the texts are short, with up to MaxAffix + 1 characters of the alphabet *)
(* on either side of a letter.                                             *)
(***************************************************************************)
MaxSaves == 1

ShortTexts ==
    {pre \o Pad(1) \o post :
        pre \in Affixes(MaxAffix + 1), post \in Affixes(MaxAffix + 1)}

InitResave ==
    /\ tickets = <<>>
    /\ messages = <<>>
    /\ profiles = [c \in Customers |-> NoProfile]
    /\ req = [p \in Procs |-> Idle]
    /\ now = 1
    /\ env = [ADMIN_EMAIL |-> TRUE, SHOPIFY |-> TRUE]
    /\ storeFailed = FALSE
    /\ started = MaxRequests - MaxSaves

NextResave ==
    \E p \in Procs :
        \/ /\ Quiet
           /\ \E t \in ShortTexts :
                \/ \E v \in {"main", "alt"}, f \in {0, 1} :
                        StartEquipment(p, v, "POST", SaveBody("c1", ListOf(1, f, t)))
                \/ StartEquipment(p, "main", "POST",
                                  AddBody("c1", InputMachine(t, JTrue, NullTime)))
        \/ \E o \in ApiOutcomes : EquipmentAdd(p, o)
        \/ \E o \in ApiOutcomes : EquipmentMutate(p, o)
        \/ Finish(p)

SpecResave == InitResave /\ [][NextResave]_vars

(***************************************************************************)
(* Claims.                                                                 *)
(***************************************************************************)

\* C1: starting from an empty store, with ticket-create invocations processed
\* one at a time and every store call succeeding, the k-th created ticket has
\* ticketNumber 1000 + k (1001 first, then the previous number plus 1).
C1_SequentialNumbers ==
    ~storeFailed =>
        \A k \in 1..Len(tickets) : tickets[k].ticket_number = 1000 + k

C1_Witness ==
    /\ ~storeFailed
    /\ Len(tickets) = 3
    /\ tickets[1].ticket_number = 1001
    /\ tickets[3].ticket_number = tickets[2].ticket_number + 1

\* C2: in every reachable state, also under interleaving of the read of the
\* current maximum (or count) and the insert of concurrent ticket-create
\* invocations, no two stored tickets have the same ticketNumber.  Stated for
\* the states in which every store call so far succeeded, so that a violation
\* is due to the interleaving alone.
C2_UniqueTicketNumbers ==
    ~storeFailed =>
        \A i, j \in 1..Len(tickets) :
            i # j => tickets[i].ticket_number # tickets[j].ticket_number

\* the invocation p returns in this step
Returns(p) == req[p].pc # "done" /\ req'[p].pc = "done"

\* C3: a ticket-update that names an existing ticket and carries a status
\* outside {Open, Pending, Resolved, Closed} or a priority outside {normal, high,
\* urgent} issues no write and leaves every stored ticket as it was, and it
\* returns 400 (once the store has answered the existence check), also when
\* the other fields of the request are valid.
C3_InvalidUpdateRejected ==
    [][\A p \in Procs :
        ( /\ Returns(p)
          /\ req'[p].kind = "update"
          /\ req'[p].method = "POST"
          /\ Len(RowsWithId(req'[p].body.ticketId)) = 1
          /\ \/ req'[p].body.status \notin VALID_STATUSES \cup {Absent}
             \/ req'[p].body.priority \notin VALID_PRIORITIES \cup {Absent} )
        => /\ tickets' = tickets
           /\ "patch_ticket" \notin req'[p].calls
           /\ req'[p].code # 200
           /\ (req'[p].loc.check = "ok" => req'[p].code = 400)]_vars

\* a request with a valid status and an invalid priority has been rejected
C3_Witness ==
    \E p \in Procs :
        /\ At(p, "update", "done")
        /\ req[p].body.ticketId = 1
        /\ req[p].body.status = "Closed"
        /\ req[p].body.priority = "low"
        /\ req[p].code = 400

\* C4: a successful ticket-update whose status is Resolved or Closed writes
\* resolved_at with the current time (the time of the updated_at bump, later
\* than every earlier write); one whose status is Open or Pending leaves the
\* stored resolved_at as it was.
C4_ResolvedAtRule ==
    [][\A p \in Procs :
        ( /\ Returns(p)
          /\ req'[p].kind = "update"
          /\ req'[p].code = 200
          /\ req'[p].method = "POST" )
        => \A i \in 1..Len(tickets) :
              tickets[i].id = req'[p].body.ticketId =>
                 /\ req'[p].body.status \in {"Resolved", "Closed"} =>
                       /\ tickets'[i].resolved_at = tickets'[i].updated_at
                       /\ tickets'[i].resolved_at > tickets[i].updated_at
                       /\ tickets'[i].resolved_at > tickets[i].resolved_at
                 /\ req'[p].body.status \in {"Open", "Pending"} =>
                       tickets'[i].resolved_at = tickets[i].resolved_at]_vars

\* a ticket has been closed and later reopened, keeping its resolved_at
C4_Witness ==
    \E p \in Procs :
        /\ At(p, "update", "done")
        /\ req[p].code = 200
        /\ req[p].body.status = "Open"
        /\ tickets[1].status = "Open"
        /\ tickets[1].resolved_at > 1

\* C5: after every ticket-reply that returns 200, on a ticket in any prior
\* status: a non-staff reply leaves the stored status Open, a staff reply that
\* is not internal leaves it Pending, and a staff internal note leaves it as
\* it was when the reply read the ticket.
C5_ReplyStatus ==
    \A p \in Procs :
        (At(p, "reply", "done") /\ req[p].code = 200) =>
            \A i \in 1..Len(tickets) :
                tickets[i].id = req[p].body.ticketId =>
                    /\ ~Truthy(req[p].body.isStaff) => tickets[i].status = "Open"
                    /\ (Truthy(req[p].body.isStaff) /\ ~Truthy(req[p].body.isInternal))
                          => tickets[i].status = "Pending"
                    /\ ( /\ Truthy(req[p].body.isStaff)
                         /\ Truthy(req[p].body.isInternal)
                         /\ req[p].loc.ticket # NoRow )
                          => tickets[i].status = req[p].loc.ticket.status

\* the non-internal messages stored for the ticket that a ticketId string names
PublicMessageIds(ticketId) ==
    { messages[i].id : i \in { j \in 1..Len(messages) :
                                 /\ ~ticketId.hash
                                 /\ messages[j].ticket_id = ticketId.id
                                 /\ messages[j].is_internal = JFalse } }

\* C6: for any stored set of messages, a ticket-messages request whose
\* includeInternal parameter is absent or is anything but the string "true"
\* returns no message with isInternal = true and returns every non-internal
\* message of the requested ticket.
C6_InternalExcluded ==
    \A p \in Procs :
        ( /\ At(p, "messages", "done")
          /\ req[p].code = 200
          /\ req[p].method = "GET"
          /\ req[p].body.includeInternal # "true" )
        => /\ \A i \in 1..Len(req[p].out) : req[p].out[i].isInternal # JTrue
           /\ PublicMessageIds(req[p].body.ticketId)
                 \subseteq { req[p].out[i].id : i \in 1..Len(req[p].out) }

\* a POST that the handlers treat as a full save: a customer id, no add of a
\* single item, and equipmentData whose machines are an array
FullSave(r) ==
    /\ r.kind = "equipment"
    /\ r.method = "POST"
    /\ Truthy(r.body.customerId)
    /\ ~(r.body.action = "add" /\ r.body.hasEquipment)
    /\ r.body.equipmentData.present
    /\ r.body.equipmentData.array

\* C7: a full equipment save whose machine list has more than 500 entries, or
\* in which more than 4 machines are marked favorite, issues no metafield
\* write (the stored profile stays as it was) and returns 400.
C7_OversizedSaveRejected ==
    \A p \in Procs :
        LET r        == req[p]
            machines == ParseMachines(r.body.equipmentData.machines)
        IN  (/\ FullSave(r)
             /\ \/ Len(machines) > MAX_MACHINES
                \/ CountFavorites(machines) > MAX_FAVORITES)
            => /\ "write_profile" \notin r.calls
               /\ r.pc = "done" => r.code = 400

Favorites(machines) == {i \in 1..Len(machines) : machines[i].favorite = JTrue}

MaxLength(variant, f) == IF variant = "main" THEN MAX_TEXT ELSE AltLength(f)

\* the machine of a request of one machine: the one to add, or the one saved
OnlyMachine(r) ==
    IF r.body.hasEquipment THEN r.body.equipment
    ELSE ParseMachines(r.body.equipmentData.machines)[1]

\* C9: when a save or an add writes a profile, every free-text field of every
\* machine written contains no '<' and no '>' and is no longer than the field's
\* maximum length: 200 in equipment-save.js; 10, 50 or 100 in the alternate
\* variant.
C9_TextFieldsSanitized ==
    [][\A p \in Procs :
          (At(p, "equipment", "mutate") /\ Returns(p) /\ req'[p].code = 200)
          => LET written == profiles'[req[p].body.customerId].machines
             IN  \A i \in 1..Len(written) : \A f \in TextFields :
                    /\ \A k \in 1..Len(written[i][f]) : written[i][f][k] \notin {"<", ">"}
                    /\ Len(written[i][f]) <= MaxLength(req[p].variant, f)]_vars

\* a machine whose texts hold a '<' and are longer than every limit has been
\* written
C9_Witness ==
    \E p \in Procs :
        /\ req[p].kind = "equipment"
        /\ req[p].pc = "done"
        /\ req[p].code = 200
        /\ "write_profile" \in req[p].calls
        /\ Len(OnlyMachine(req[p]).name) > MAX_TEXT
        /\ \E k \in 1..Len(OnlyMachine(req[p]).name) : OnlyMachine(req[p]).name[k] = "<"
        /\ profiles[req[p].body.customerId].set

\* C10: every stored machine has a non-empty id.
C10_StoredIdNonEmpty ==
    \A c \in Customers :
        \A i \in 1..Len(profiles[c].machines) : profiles[c].machines[i].id # <<>>

\* the add of invocation p meets a stored profile that is full, or that holds
\* MAX_FAVORITES favorites while the machine to add is a favorite
AddAtLimit(p) ==
    LET stored == profiles[req[p].body.customerId].machines
    IN  \/ Len(stored) >= MAX_MACHINES
        \/ /\ Truthy(req[p].body.equipment.favorite)
           /\ Cardinality(Favorites(stored)) >= MAX_FAVORITES

\* C11: an add of a single item for a customer whose stored profile already
\* holds 500 machines, or of a favorite machine when the stored profile already
\* holds 4 favorites, is rejected with 400 as soon as the profile has been read
\* (the rejection of saveEquipmentData for the combined list), and the stored
\* profile stays as it was.
C11_AddAtLimitRejected ==
    [][\A p \in Procs :
          (At(p, "equipment", "add") /\ req'[p] # req[p] /\ AddAtLimit(p))
          => /\ req'[p].pc = "done"
             /\ req'[p].code = 400
             /\ "write_profile" \notin req'[p].calls
             /\ profiles' = profiles]_vars

\* invocation p is an add of a single item that has returned 200 after reading
\* n stored machines
AddedTo(p, c, n) ==
    /\ req[p].kind = "equipment"
    /\ req[p].body.action = "add"
    /\ req[p].body.customerId = c
    /\ req[p].pc = "done"
    /\ req[p].code = 200
    /\ req[p].loc.check = "ok"
    /\ req[p].loc.n = n

\* C12: when two adds of single items for the same customer have both read
\* the same stored profile and the second of them returns 200 (the first has
\* returned 200 already), the stored profile holds one machine more than the
\* profile they read, and not two: it is the profile read plus the machine of
\* the add that wrote last.
C12_LastWriteWins ==
    [][\A p, q \in Procs : \A c \in Customers : \A n \in {req[q].loc.n} :
          (/\ p # q
           /\ AddedTo(q, c, n)
           /\ At(p, "equipment", "mutate")
           /\ AddedTo(p, c, n)')
          => /\ Len(profiles'[c].machines) = n + 1
             /\ profiles'[c].machines[n + 1].id = req[p].body.equipment.id]_vars

\* both adds have returned 200 after reading the same profile, and the stored
\* profile holds the machine of one of them only
C12_Witness ==
    \E p, q \in Procs : \E n \in 0..1 :
        /\ p # q
        /\ AddedTo(p, "c1", n)
        /\ AddedTo(q, "c1", n)
        /\ req[p].body.equipment.id # req[q].body.equipment.id
        /\ Len(profiles["c1"].machines) = n + 1
        /\ \A i \in 1..(n + 1) : profiles["c1"].machines[i].id # req[q].body.equipment.id

\* the record an invocation has created is in the store
Persisted(r) ==
    /\ r.out # <<>>
    /\ IF r.kind = "create"
       THEN \E i \in 1..Len(tickets) : tickets[i].id = r.out.id
       ELSE \E i \in 1..Len(messages) : messages[i] = r.out

\* C13: once ticket-create has persisted the ticket, or ticket-reply the
\* message, a notification call that throws or is answered with an error
\* leaves the response at 200 with the created record, and the record stays in
\* the store.
C13_NotifyFailureKeeps200 ==
    \A p \in Procs :
        (/\ req[p].kind \in {"create", "reply"}
         /\ "notify_failed" \in req[p].calls)
        => /\ Persisted(req[p])
           /\ req[p].pc = "done" => req[p].code = 200

\* an invocation has returned 200 after a notification call of its that failed
C13_Witness ==
    \E p \in Procs :
        /\ req[p].kind \in {"create", "reply"}
        /\ req[p].pc = "done"
        /\ "notify_failed" \in req[p].calls
        /\ req[p].code = 200
        /\ Persisted(req[p])

\* invocation p has persisted its record and has reached its notifications
InNotifications(p) ==
    /\ req[p].kind \in {"create", "reply"}
    /\ req[p].pc \in {"notify_customer", "notify_admin", "notify"}

\* C14: once ticket-create or ticket-reply has persisted its record and has
\* reached its notifications, the handler eventually returns its 200 response,
\* also when a notification call never completes.
C14_ReturnsWithoutNotifier ==
    \A p \in Procs :
        InNotifications(p) ~> (req[p].pc = "done" /\ req[p].code = 200)

\* a field of a request body that is missing (absent or null) or empty
MissingOrEmpty(v) == v \in {Absent, JNull, ""}

\* C15: a ticket-create request in which customerId, type, subject or
\* description is missing or empty returns 400 at once: it reads no ticket
\* number, persists no ticket and sends no notification.
C15_CreateValidation ==
    [][\A p \in Procs :
          (/\ req[p].pc = "idle"
           /\ req'[p].kind = "create"
           /\ req'[p].method = "POST"
           /\ \/ MissingOrEmpty(req'[p].body.customerId)
              \/ MissingOrEmpty(req'[p].body.type)
              \/ MissingOrEmpty(req'[p].body.subject)
              \/ MissingOrEmpty(req'[p].body.description))
          => /\ req'[p].pc = "done"
             /\ req'[p].code = 400
             /\ req'[p].calls = {}
             /\ tickets' = tickets]_vars

\* a request that lacks only its description has been answered with 400
C15_Witness ==
    \E p \in Procs :
        /\ req[p].kind = "create"
        /\ req[p].pc = "done"
        /\ req[p].code = 400
        /\ req[p].body.description = ""
        /\ ~MissingOrEmpty(req[p].body.customerId)
        /\ ~MissingOrEmpty(req[p].body.type)
        /\ ~MissingOrEmpty(req[p].body.subject)
        /\ tickets = <<>>

ReplyLacksContent(body) ==
    \/ body.ticketId = NoId
    \/ /\ body.message \in {Absent, JNull, ""}
       /\ body.attachments \in {Absent, JNull, "[]"}

\* C17: a ticket-reply without a ticketId, or with neither message text nor a
\* non-empty attachments list, is rejected with 400 before any call is made;
\* one for a ticket that does not exist is rejected with 404 once the store has
\* answered the lookup; and every ticket-reply rejected with 400 or 404 has
\* stored no message, modified no ticket and sent no notification.
C17_RejectedReplyNoEffect ==
    [][\A p \in Procs :
        ( /\ Returns(p)
          /\ req'[p].kind = "reply"
          /\ req'[p].method = "POST" )
        => /\ ReplyLacksContent(req'[p].body) => req'[p].code = 400
           /\ (/\ ~ReplyLacksContent(req'[p].body)
               /\ Len(RowsWithId(req'[p].body.ticketId)) = 0
               /\ req'[p].loc.check = "ok") => req'[p].code = 404
           /\ req'[p].code \in {400, 404} =>
                 /\ req'[p].calls \subseteq {"read_ticket"}
                 /\ messages' = messages
                 /\ tickets' = tickets]_vars

\* a reply with an empty attachments list and no message has been rejected
C17_Witness ==
    \E p \in Procs :
        /\ At(p, "reply", "done")
        /\ req[p].body.ticketId = 1
        /\ req[p].body.attachments = "[]"
        /\ req[p].code = 400
        /\ req[p].calls = {}
        /\ messages = <<>>

\* invocation p starts with this step
Starts(p) == req[p].pc = "idle" /\ req'[p].pc # "idle"

\* C18: with or without the credential of the email provider, a ticket-notify
\* request in which customerEmail and adminEmail are both absent, or whose type
\* is none of admin_reply, status_changed, ticket_created, new_ticket_admin,
\* returns 400 and no email is dispatched for it.
C18_NotifierValidation ==
    [][\A p \in Procs :
        ( /\ Starts(p)
          /\ req'[p].kind = "notify"
          /\ req'[p].method = "POST"
          /\ \/ /\ req'[p].body.customerEmail \in {Absent, JNull, ""}
                /\ req'[p].body.adminEmail \in {Absent, JNull, ""}
             \/ req'[p].body.type \notin
                    {"admin_reply", "status_changed", "ticket_created", "new_ticket_admin"} )
        => /\ req'[p].pc = "done"
           /\ req'[p].code = 400
           /\ req'[p].calls = {}]_vars

\* C19: without the credential of the email provider, a ticket-notify request
\* that passes the validation (a recipient and a ticket number) returns 200
\* with success = true and a warning, and the email provider is not called.
C19_UnconfiguredNotifier ==
    [][\A p \in Procs :
        ( /\ Starts(p)
          /\ req'[p].kind = "notify"
          /\ req'[p].method = "POST"
          /\ ~env.RESEND_API_KEY
          /\ \/ req'[p].body.customerEmail \notin {Absent, JNull, ""}
             \/ req'[p].body.adminEmail \notin {Absent, JNull, ""}
          /\ req'[p].body.ticketNumber \notin {Absent, JNull, ""} )
        => /\ req'[p].pc = "done"
           /\ req'[p].code = 200
           /\ req'[p].out.success = JTrue
           /\ req'[p].out.warning # Absent
           /\ req'[p].calls = {}]_vars

\* a request with an admin recipient only has been answered with the warning
C19_Witness ==
    \E p \in Procs :
        /\ At(p, "notify", "done")
        /\ ~env.RESEND_API_KEY
        /\ req[p].body.customerEmail = Absent
        /\ req[p].body.type = "new_ticket_admin"
        /\ req[p].code = 200
        /\ req[p].out = NotConfigured
        /\ req[p].calls = {}

\* the methods a handler serves
Supported(kind, variant) ==
    IF kind \in {"messages", "get", "admin-list"} THEN {"GET"}
    ELSE IF kind = "equipment" /\ variant = "main" THEN {"GET", "POST"}
    ELSE {"POST"}

\* invocation p has returned at its first step, having issued no external call
\* and with the stored tickets, messages and profiles as they were
ReturnsUntouched(p, code) ==
    /\ req'[p].pc = "done"
    /\ req'[p].code = code
    /\ req'[p].calls = {}
    /\ tickets' = tickets
    /\ messages' = messages
    /\ profiles' = profiles

\* C20: in every handler a request with method OPTIONS returns 200 with an
\* empty body, and a request with a method the handler does not serve returns
\* 405; either way the handler issues no external call and leaves the stored
\* tickets, messages and profiles unchanged.
C20_PreflightAndMethod ==
    [][\A p \in Procs :
        Starts(p) =>
            /\ req'[p].method = "OPTIONS"
                    => ReturnsUntouched(p, 200) /\ req'[p].out = <<>>
            /\ req'[p].method \notin Supported(req'[p].kind, req'[p].variant) \cup {"OPTIONS"}
                    => ReturnsUntouched(p, 405)]_vars

\* ticket-admin-list has answered an OPTIONS request
C20_Witness ==
    \E p \in Procs :
        /\ req[p].pc = "done"
        /\ req[p].kind = "admin-list"
        /\ req[p].method = "OPTIONS"
        /\ req[p].code = 200
        /\ req[p].out = <<>>
        /\ req[p].calls = {}

\* C21: when the read of the current maximum ticket number (or of the count)
\* has thrown or has been answered with an error, ticket-create returns 500 and
\* inserts no ticket; it does not go on with 1001.
C21_NumberReadFailure ==
    \A p \in Procs :
        (/\ req[p].kind = "create"
         /\ "read_number" \in req[p].calls
         /\ req[p].loc.check \in {"error", "throw"})
        => /\ req[p].pc = "done"
           /\ req[p].code = 500
           /\ "insert_ticket" \notin req[p].calls

\* a machine without the time of its last save
Content(m) == [m EXCEPT !.updatedAt = NullTime]

\* C22: an add of a single item that returns 200 while no other request
\* writes the profile of the customer leaves the stored list as the machines
\* stored before it, in their order, followed by the sanitized new machine,
\* whatever the outcome of its read of the profile.
C22_AddOnlyAppends ==
    [][\A p \in Procs :
          (/\ At(p, "equipment", "mutate")
           /\ req[p].body.action = "add"
           /\ req'[p].pc = "done"
           /\ req'[p].code = 200)
          => LET before == profiles[req[p].body.customerId].machines
                 after  == profiles'[req[p].body.customerId].machines
             IN  /\ Len(after) = Len(before) + 1
                 /\ \A i \in 1..Len(before) : Content(after[i]) = Content(before[i])
                 /\ after[Len(after)].id = Sanitize(req[p].body.equipment.id)
                 /\ after[Len(after)].name = Sanitize(req[p].body.equipment.name)]_vars

\* the reply of invocation p is a staff reply that is not an internal note, to
\* a ticket that has a customer email
StaffReplyToCustomer(p) ==
    /\ req[p].body.isStaff \notin {Absent, JNull, JFalse}
    /\ req[p].body.isInternal \in {Absent, JNull, JFalse}
    /\ \E i \in 1..Len(tickets) :
            /\ tickets[i].id = req[p].body.ticketId
            /\ tickets[i].customer_email \notin {Absent, JNull, ""}

\* C23: a ticket-reply that returns 200 has called the notifier if and only
\* if the reply is from staff, is not internal and the ticket has a customer
\* email; an internal note or a reply that is not from staff never calls it.
C23_ReplyNotifiesIff ==
    \A p \in Procs :
        (/\ req[p].kind = "reply"
         /\ req[p].method = "POST"
         /\ req[p].pc = "done")
        => /\ "notify_customer" \in req[p].calls => StaffReplyToCustomer(p)
           /\ (req[p].code = 200 /\ StaffReplyToCustomer(p))
                    => "notify_customer" \in req[p].calls

\* C24: every stored ticket has a type among return, parts, equipment-help,
\* order-issue and general, a priority among normal, high and urgent, and a
\* status among Open, Pending, Resolved and Closed.
C24_StoredEnums ==
    \A i \in 1..Len(tickets) :
        /\ tickets[i].type \in {"return", "parts", "equipment-help", "order-issue", "general"}
        /\ tickets[i].priority \in {"normal", "high", "urgent"}
        /\ tickets[i].status \in {"Open", "Pending", "Resolved", "Closed"}

\* C25: the resolved_at of a stored ticket changes only in a step that moves
\* the ticket from a status other than Resolved and Closed to Resolved or
\* Closed; an update that names the status the ticket has, an update of other
\* fields and a reply leave it as it was.
C25_ResolvedAtOnTransition ==
    [][\A i \in 1..Len(tickets) :
          tickets'[i].resolved_at # tickets[i].resolved_at
          => /\ tickets[i].status \notin {"Resolved", "Closed"}
             /\ tickets'[i].status \in {"Resolved", "Closed"}]_vars

\* C26: a ticket-update that returns 200 leaves every other ticket as it was
\* and changes, in its ticket, only updated_at, resolved_at and fields present
\* in the request: status, priority, assignedTo, assignedName, customerArchived
\* and adminArchived each keep the stored value when absent from the request.
C26_UpdateFrame ==
    [][\A p \in Procs :
        ( /\ Returns(p)
          /\ req'[p].kind = "update"
          /\ req'[p].method = "POST"
          /\ req'[p].code = 200 )
        => \A i \in 1..Len(tickets) :
             LET b == req'[p].body
                 old == tickets[i]
                 new == tickets'[i]
             IN  IF old.id # b.ticketId THEN new = old
                 ELSE /\ b.status = Absent => new.status = old.status
                      /\ b.priority = Absent => new.priority = old.priority
                      /\ b.assignedTo = Absent => new.assigned_to = old.assigned_to
                      /\ b.assignedName = Absent => new.assigned_name = old.assigned_name
                      /\ b.customerArchived = Absent
                            => new.customer_archived = old.customer_archived
                      /\ b.adminArchived = Absent
                            => new.admin_archived = old.admin_archived
                      /\ new.id = old.id
                      /\ new.ticket_number = old.ticket_number
                      /\ new.customer_id = old.customer_id
                      /\ new.customer_email = old.customer_email
                      /\ new.type = old.type
                      /\ new.created_at = old.created_at]_vars

\* the message of the reply of invocation p is in the store
MessageStored(p) ==
    \E i \in 1..Len(messages) : [messages[i] EXCEPT !.id = NoId] = req[p].loc.msg

\* the write of status and updated_at of the reply of invocation p is in the
\* ticket
TicketWritten(p) ==
    /\ req[p].loc.upd.updated_at # NullTime
    /\ \E i \in 1..Len(tickets) :
            /\ tickets[i].id = req[p].body.ticketId
            /\ tickets[i].updated_at = req[p].loc.upd.updated_at

\* C27: a ticket-reply that has returned anything but 200 has stored no message
\* and has not written the ticket; one that has returned 200 has stored the
\* message and its write of status and updated_at is applied.
C27_ReplyAllOrNothing ==
    \A p \in Procs :
        (/\ req[p].kind = "reply"
         /\ req[p].method = "POST"
         /\ req[p].pc = "done")
        => IF req[p].code = 200
           THEN MessageStored(p) /\ TicketWritten(p)
           ELSE ~MessageStored(p) /\ ~TicketWritten(p)

\* the place of the message of invocation p in the table of messages
MessageIndex(p) ==
    CHOOSE i \in 1..Len(messages) : [messages[i] EXCEPT !.id = NoId] = req[p].loc.msg

\* C28: when a reply that is not from staff and a staff reply that is not
\* internal, to the same ticket, have overlapped and both returned 200, the
\* status of the ticket is the one of the reply whose message was stored last:
\* Open when that is the reply that is not from staff, Pending when it is the
\* staff reply.
C28_StatusOfLastReply ==
    \A p, q \in Procs :
        (/\ req[p].kind = "reply" /\ req[p].pc = "done" /\ req[p].code = 200
         /\ req[q].kind = "reply" /\ req[q].pc = "done" /\ req[q].code = 200
         /\ req[p].body.ticketId = req[q].body.ticketId
         /\ req[p].body.isStaff = JTrue /\ req[p].body.isInternal = JFalse
         /\ req[q].body.isStaff = JFalse)
        => \A i \in 1..Len(tickets) :
              tickets[i].id = req[p].body.ticketId
              => tickets[i].status = IF MessageIndex(p) > MessageIndex(q)
                                     THEN "Pending" ELSE "Open"

\* the machines a save through the given variant stores for a list of machines
Resaved(variant, machines, t) ==
    IF variant = "main"
    THEN [i \in 1..Len(machines) |-> SanitizeMachine(machines[i], t)]
    ELSE ValidateData(machines, t)

\* C29: sanitizing the machines that a request has stored once more, as a save
\* of the stored profile through the same handler does, gives every machine
\* the id, the free-text fields and the favorite flag it has (the time of the
\* save aside).
C29_SanitizeIdempotent ==
    [][\A p \in Procs :
          (/\ At(p, "equipment", "mutate")
           /\ req'[p].pc = "done"
           /\ req'[p].code = 200)
          => LET stored == profiles'[req[p].body.customerId].machines
                 again  == Resaved(req[p].variant, stored, now + 1)
             IN  /\ Len(again) = Len(stored)
                 /\ \A i \in 1..Len(stored) : Content(again[i]) = Content(stored[i])]_vars

\* C30: a ticket-create of the REST variant that has persisted its ticket and
\* has returned, with an admin address configured, has attempted the admin
\* alert, whether the confirmation to the customer was skipped, succeeded or
\* failed.
C30_AdminAlertIndependent ==
    \A p \in Procs :
        (/\ req[p].kind = "create"
         /\ req[p].variant = "rest"
         /\ req[p].pc = "done"
         /\ Persisted(req[p])
         /\ env.ADMIN_EMAIL)
        => "notify_admin" \in req[p].calls

====
